---------------------------- MODULE Spec2Model ----------------------------
(***************************************************************************)
(* SmartAudit Agent: the web server's audit registry (src/src/server.ts)   *)
(* and the audit pipeline runAudit (src/src/agent/smartAuditAgent.ts),     *)
(* with its notification sink (src/src/telegram/telegramBot.ts).           *)
(*                                                                         *)
(* One Node.js process: code between two awaits is atomic, every await of  *)
(* an external call is a point where other tasks (other requests, other    *)
(* audits, the progress timers) may run.  Each action below is one such    *)
(* atomic piece.                                                           *)
(***************************************************************************)
EXTENDS Integers, Sequences, FiniteSets, TLC

(* ------------------------------ bounds -------------------------------- *)

\* number of POST /api/audit/start requests the clients send
MaxRequests == 2

\* last millisecond of the clock (Date.now() is read as 0..MaxTime)
MaxTime == 1

\* most entries in the output of one static analyzer
MaxItems == 2

\* most findings in a list whose top findings are selected
MaxFindings == 6

\* most findings in such a list when one of them has no priority score
MaxUnscored == 3

\* the largest per-analyzer finding counter whose ids are compared
MaxIdCounter == 1001

\* Solidity files a repository holds, lines per file, words per line
MaxFiles == 2

MaxLines == 2

MaxLineLen == 2

\* RPC URLs configured and contract artifacts a compilation leaves
MaxRpcUrls == 3

MaxArtifacts == 4

\* the largest maxRetries retry is called with
MaxRetries == 3

(* ----------------------------- constants ------------------------------ *)

\* progressSteps.length / totalSteps
TotalSteps == 6

\* .slice(0, 5) of the sorted findings
TopK == 5

\* contractFiles.slice(0, 3): the contracts deployContracts tries to deploy
MaxDeployed == 3

Runs == 1..MaxRequests

None == << >>
Some(x) == << x >>
IsSome(o) == Len(o) = 1
Get(o) == o[1]

(* ------------------------- findings and scoring ------------------------ *)

Severities == {"critical", "high", "medium", "low", "info"}
Confidences == {"high", "medium", "low"}

\* stands for the number NaN (every score that is a number is positive)
NaN == 0 - 1

\* severityScores[finding.severity]: a word that is no key gives undefined,
\* with which the product is NaN
severityScores(s) ==
    CASE s = "critical" -> 10
      [] s = "high" -> 7
      [] s = "medium" -> 4
      [] s = "low" -> 2
      [] s = "info" -> 1
      [] OTHER -> NaN

\* confidenceScores[finding.confidence]
confidenceScores(c) ==
    CASE c = "high" -> 3
      [] c = "medium" -> 2
      [] c = "low" -> 1
      [] OTHER -> NaN

\* a product of priority weights added instead of multiplied
calculatePriorityScoreAdding(f) ==
    IF severityScores(f.severity) = NaN \/ confidenceScores(f.confidence) = NaN
    THEN NaN
    ELSE severityScores(f.severity) + confidenceScores(f.confidence) - 1

\* return severityScores[finding.severity] * confidenceScores[finding.confidence]
calculatePriorityScore(f) ==
    IF severityScores(f.severity) = NaN \/ confidenceScores(f.confidence) = NaN
    THEN NaN
    ELSE severityScores(f.severity) * confidenceScores(f.confidence)

\* Array.prototype.sort with comparator (a, b) => score(b) - score(a):
\* stable, descending by score (insertion of each element after every
\* element whose score is >= its own).
RECURSIVE InsertByPriority(_, _)
InsertByPriority(sorted, f) ==
    IF sorted = << >> THEN << f >>
    ELSE IF calculatePriorityScore(Head(sorted)) >= calculatePriorityScore(f)
         THEN << Head(sorted) >> \o InsertByPriority(Tail(sorted), f)
         ELSE << f >> \o sorted

RECURSIVE SortByPriority(_)
SortByPriority(fs) ==
    IF fs = << >> THEN << >>
    ELSE InsertByPriority(SortByPriority(SubSeq(fs, 1, Len(fs) - 1)), fs[Len(fs)])

Slice(fs, k) == SubSeq(fs, 1, IF Len(fs) < k THEN Len(fs) ELSE k)

CountSeverity(fs, s) == Cardinality({i \in 1..Len(fs) : fs[i].severity = s})

Summarize(fs) ==
    [critical |-> CountSeverity(fs, "critical"),
     high     |-> CountSeverity(fs, "high"),
     medium   |-> CountSeverity(fs, "medium"),
     low      |-> CountSeverity(fs, "low"),
     info     |-> CountSeverity(fs, "info"),
     total    |-> Len(fs)]

ZeroSummary == [critical |-> 0, high |-> 0, medium |-> 0, low |-> 0, info |-> 0, total |-> 0]

Finding(id, sev, conf) == [id |-> id, severity |-> sev, confidence |-> conf]

\* two findings that the priority sort exchanges
SampleFindings ==
    << Finding("SLNT-001", "low", "medium"), Finding("PTRN-001", "high", "medium") >>

\* the finding lists a successful static analysis may return in this model
FindingsInputs == { << >>, SampleFindings }

(* ------------------------------- state -------------------------------- *)

VARIABLES
    clients,  \* how many POST /api/audit/start requests the clients will send
    now,      \* the last value Date.now() returned
    config,   \* the loaded configuration (utils/config) and whether the bot is set up
    audits,   \* server.ts: the registry Map, audit id -> the AuditStatus object it holds
    rec,      \* the AuditStatus object created by request r (captured by its closures)
    timer,    \* the progress interval of request r's background task
    run,      \* the runAudit invocation of request r: position, locals, history
    reports,  \* the files memory/<auditId>/audit-report.json: id -> the run that wrote it
    responses, \* the HTTP response request r was answered with, once it was
    sa,       \* one invocation of runStaticAnalysis: its analyzers and its result
    fn        \* one call of a function of the normalizer: its argument and what it returned

\* the state of the server and of its audits
pipeline == << clients, now, config, audits, rec, timer, run, reports, responses >>

vars == << clients, now, config, audits, rec, timer, run, reports, responses, sa, fn >>

\* `audit-${Date.now()}`
AuditId(ms) == << "audit", ms >>

\* a later reading of the clock: the same millisecond or a later one
ClockReads == {t \in {now, now + 1} : t <= MaxTime}

\* a reading of the clock after one that returned t
LaterReads(t) == {u \in {t, t + 1} : u <= MaxTime}

Configs ==
    [enableDynamicTesting : BOOLEAN,   \* ENABLE_DYNAMIC_TESTING !== 'false'
     enableAutoPR         : BOOLEAN,   \* ENABLE_AUTO_PR !== 'false'
     testnetPrivateKey    : BOOLEAN,   \* TESTNET_PRIVATE_KEY is non-empty
     rpcUrls              : BOOLEAN,   \* RPC_URLS holds at least one URL
     githubToken          : BOOLEAN,   \* GITHUB_TOKEN is non-empty
     telegram             : BOOLEAN]   \* bot initialised and TELEGRAM_CHAT_ID set

\* the slot of a request that has not arrived yet
NoAudit ==
    [id |-> None, status |-> "none", startedAt |-> None, progress |-> None,
     completedAt |-> FALSE, result |-> None, error |-> None]

\* server.ts: const audit = { id, repoUrl, branch, status: 'queued', startedAt }
NewAudit(id, startedAt) ==
    [id |-> id, status |-> "queued", startedAt |-> Some(startedAt), progress |-> None,
     completedAt |-> FALSE, result |-> None, error |-> None]

\* server.ts: audit.status = 'running'; audit.progress = { step: 'clone', stepNumber: 1, ... }
StartedAuditSkippingRunning(a) == [a EXCEPT !.progress = Some(1)]

StartedAudit(a) == [a EXCEPT !.status = "running", !.progress = Some(1)]

\* the continuation without `delete audit.progress`
CompletedAuditKeepingProgress(a, result) ==
    [a EXCEPT !.status = "completed", !.completedAt = TRUE, !.result = Some(result)]

\* the continuation copying the message of a failure result into the record
CompletedAuditWithError(a, result) ==
    [a EXCEPT !.status = "completed", !.completedAt = TRUE, !.result = Some(result),
              !.error = IF result.success THEN None ELSE Some("audit failed"),
              !.progress = None]

\* server.ts: the continuation of `await runAudit(...)`
CompletedAudit(a, result) ==
    [a EXCEPT !.status = "completed", !.completedAt = TRUE, !.result = Some(result),
              !.progress = None]

\* server.ts: the outer catch
FailedAudit(a, message) ==
    [a EXCEPT !.status = "failed", !.completedAt = TRUE, !.error = Some(message),
              !.progress = None]

\* Map.prototype.set: a new key is added, an existing key is overwritten
MapSet(m, k, v) == [x \in DOMAIN m \cup {k} |-> IF x = k THEN v ELSE m[x]]

NoTimer == [active |-> FALSE, currentStepIndex |-> 0]

IdleRun ==
    [pc |-> "idle",
     opts |-> [runDynamicTests |-> FALSE, createPullRequest |-> FALSE],
     auditId |-> None,        \* runAudit's own auditId
     returned |-> None,       \* the findings as runStaticAnalysis returned them
     findings |-> None,       \* staticResult.findings (the array, as it is now)
     summary |-> None,        \* staticResult.summary
     topFindings |-> << >>,
     dyn |-> None,            \* dynamicResult
     fixes |-> None,          \* fixesResult.fixes
     prUrl |-> None,
     error |-> None,          \* errorMsg of the catch block
     promise |-> None,        \* how the promise of runAudit settled
     calls |-> << >>,         \* the stages invoked, in order, each with its outcome
     notes |-> << >>,         \* the notifications emitted, in order
     lost |-> FALSE,          \* some notification was not delivered
     writes |-> 0]            \* report files written by this run

\* a provisioned deployment: the feature flags at their default (true,
\* `!== 'false'`), the testnet key, an RPC URL and the GitHub token set, and
\* no Telegram token (initTelegramBot leaves the bot null)
ProvisionedConfig ==
    [enableDynamicTesting |-> TRUE, enableAutoPR |-> TRUE, testnetPrivateKey |-> TRUE,
     rpcUrls |-> TRUE, githubToken |-> TRUE, telegram |-> FALSE]

\* no static analysis is modelled in detail: runStaticAnalysis is a collaborator
\* of which runAudit sees only the result
NoAnalysis == [pc |-> "none"]

\* no function of the normalizer is followed on its own
NoCall == [op |-> "none"]

InitState ==
    /\ now = 0
    /\ audits = << >>
    /\ rec = [r \in Runs |-> NoAudit]
    /\ timer = [r \in Runs |-> NoTimer]
    /\ run = [r \in Runs |-> IdleRun]
    /\ reports = << >>
    /\ responses = [r \in Runs |-> None]

\* one audit, under every configuration
Init ==
    /\ clients = 1
    /\ config \in Configs
    /\ InitState
    /\ sa = NoAnalysis
    /\ fn = NoCall

\* MaxRequests audits in flight together, in a provisioned deployment
InitConcurrent ==
    /\ clients = MaxRequests
    /\ config = ProvisionedConfig
    /\ InitState
    /\ sa = NoAnalysis
    /\ fn = NoCall

(* ------------------------------ server.ts ------------------------------ *)

\* const { repoUrl, branch = 'main', runDynamicTests = true, createPullRequest = true } = body
DefaultBody == [runDynamicTests |-> TRUE, createPullRequest |-> TRUE]

\* the request bodies (all with a repoUrl): a single client sets the two
\* options freely, concurrent clients leave them to their defaults
RequestBodies ==
    IF clients = 1
    THEN [runDynamicTests : BOOLEAN, createPullRequest : BOOLEAN]
    ELSE {DefaultBody}

\* return c.json({ auditId, status: 'queued', message: 'Audit started successfully' })
QueuedResponse(id) == [auditId |-> id, status |-> "queued"]

\* the handler with the background task called in place of setImmediate: the
\* task has run up to its first await when the response is produced
PostAuditStartInline(r) ==
    /\ run[r].pc = "idle"
    /\ r <= clients
    /\ IF r = 1 THEN TRUE ELSE run[r - 1].pc # "idle"
    /\ \E t \in ClockReads, body \in RequestBodies :
      \E startedAt \in LaterReads(t) :
        /\ now' = startedAt
        /\ rec' = [rec EXCEPT ![r] = StartedAudit(NewAudit(AuditId(t), startedAt))]
        /\ audits' = MapSet(audits, AuditId(t), r)
        /\ timer' = [timer EXCEPT ![r] = [active |-> TRUE, currentStepIndex |-> 0]]
        /\ run' = [run EXCEPT ![r] = [@ EXCEPT !.pc = "notifyStart", !.opts = body,
                                               !.auditId = Some(AuditId(t))]]
        /\ responses' = [responses EXCEPT ![r] = Some(QueuedResponse(AuditId(t)))]
    /\ UNCHANGED << clients, config, reports, sa, fn >>

\* POST /api/audit/start with a repoUrl: register the audit as queued under
\* audit-<now> with startedAt = new Date(), a second reading of the clock,
\* schedule the background task, answer { auditId, status: 'queued' }.
PostAuditStart(r) ==
    /\ run[r].pc = "idle"
    /\ r <= clients
    /\ IF r = 1 THEN TRUE ELSE run[r - 1].pc # "idle"
    /\ \E t \in ClockReads, body \in RequestBodies :
      \E startedAt \in LaterReads(t) :
        /\ now' = startedAt
        /\ rec' = [rec EXCEPT ![r] = NewAudit(AuditId(t), startedAt)]
        /\ audits' = MapSet(audits, AuditId(t), r)
        /\ run' = [run EXCEPT ![r] = [@ EXCEPT !.pc = "scheduled", !.opts = body]]
        /\ responses' = [responses EXCEPT ![r] = Some(QueuedResponse(AuditId(t)))]
    /\ UNCHANGED << clients, config, timer, reports, sa, fn >>

\* what `await c.req.json()` and the destructuring make of the body a client
\* sends: req.json() rejects a body that is not JSON (an empty body
\* included), destructuring the JSON value null raises a TypeError, and an
\* object yields its repoUrl, undefined (None) when it has none
RepoUrlValues == {None, Some(""), Some("https://github.com/o/r")}

RequestsReceived ==
    [json : {"unparsable", "null"}, repoUrl : {None}]
        \cup [json : {"object"}, repoUrl : RepoUrlValues]

\* !repoUrl
Falsy(repoUrl) == repoUrl = None \/ repoUrl = Some("")

\* return c.json({ error: 'Repository URL is required' }, 400)
BadRequestResponse == [status |-> 400, error |-> "Repository URL is required"]

\* the outer catch: return c.json({ error: error.message }, 500)
ServerErrorResponse(request) ==
    [status |-> 500,
     error |-> IF request.json = "unparsable" THEN "SyntaxError" ELSE "TypeError"]

\* POST /api/audit/start with whatever body the client sends; fn keeps the
\* request that was handled last. A body req.json() or the destructuring
\* raises on is answered by the outer catch with 500, a falsy repoUrl with
\* 400, and every other request is accepted as in PostAuditStart.
PostAuditStartRequest(r) ==
    /\ run[r].pc = "idle"
    /\ r <= clients
    /\ IF r = 1 THEN TRUE ELSE run[r - 1].pc # "idle"
    /\ \E request \in RequestsReceived :
        /\ fn' = [op |-> "postAuditStart", client |-> r, body |-> request]
        /\ IF request.json # "object"
           THEN /\ responses' = [responses EXCEPT ![r] = Some(ServerErrorResponse(request))]
                /\ UNCHANGED << now, audits, rec, run >>
           ELSE IF Falsy(request.repoUrl)
           THEN /\ responses' = [responses EXCEPT ![r] = Some(BadRequestResponse)]
                /\ UNCHANGED << now, audits, rec, run >>
           ELSE \E t \in ClockReads, body \in RequestBodies :
                 \E startedAt \in LaterReads(t) :
                   /\ now' = startedAt
                   /\ rec' = [rec EXCEPT ![r] = NewAudit(AuditId(t), startedAt)]
                   /\ audits' = MapSet(audits, AuditId(t), r)
                   /\ run' = [run EXCEPT ![r] = [@ EXCEPT !.pc = "scheduled",
                                                          !.opts = body]]
                   /\ responses' = [responses EXCEPT
                                       ![r] = Some(QueuedResponse(AuditId(t)))]
    /\ UNCHANGED << clients, config, timer, reports, sa >>

\* The setImmediate callback up to its first await: the record becomes running,
\* the progress interval is created, runAudit is called and runs up to
\* `await telegram.notifyAuditStart(...)`.
BackgroundStart(r) ==
    /\ run[r].pc = "scheduled"
    /\ rec' = [rec EXCEPT ![r] = StartedAudit(@)]
    /\ timer' = [timer EXCEPT ![r] = [active |-> TRUE, currentStepIndex |-> 0]]
    /\ \E t \in ClockReads :
        /\ now' = t
        /\ run' = [run EXCEPT ![r] = [@ EXCEPT !.pc = "notifyStart",
                                               !.auditId = Some(AuditId(t))]]
    /\ UNCHANGED << clients, config, audits, reports, responses, sa, fn >>

\* a progress callback that writes to every running record
ProgressTickShared(r) ==
    /\ timer[r].active
    /\ IF timer[r].currentStepIndex < TotalSteps /\ rec[r].status = "running"
       THEN /\ rec' = [q \in Runs |->
                         IF rec[q].status = "running"
                         THEN [rec[q] EXCEPT !.progress = Some(timer[r].currentStepIndex + 1)]
                         ELSE rec[q]]
            /\ timer' = [timer EXCEPT ![r].currentStepIndex = @ + 1]
       ELSE UNCHANGED << rec, timer >>
    /\ UNCHANGED << clients, now, config, audits, run, reports, responses, sa, fn >>

\* One firing of the setInterval callback of request r.
ProgressTick(r) ==
    /\ timer[r].active
    /\ IF timer[r].currentStepIndex < TotalSteps /\ rec[r].status = "running"
       THEN /\ rec' = [rec EXCEPT ![r].progress = Some(timer[r].currentStepIndex + 1)]
            /\ timer' = [timer EXCEPT ![r].currentStepIndex = @ + 1]
       ELSE UNCHANGED << rec, timer >>
    /\ UNCHANGED << clients, now, config, audits, run, reports, responses, sa, fn >>

\* a continuation that runs only when runAudit returned a success result
AuditSettledOnSuccessOnly(r) ==
    /\ run[r].pc = "settled"
    /\ Get(run[r].promise).state = "resolved"
    /\ Get(run[r].promise).value.success
    /\ timer' = [timer EXCEPT ![r] = NoTimer]
    /\ rec' = [rec EXCEPT ![r] = CompletedAudit(@, Get(run[r].promise).value)]
    /\ run' = [run EXCEPT ![r].pc = "done"]
    /\ UNCHANGED << clients, now, config, audits, reports, responses, sa, fn >>

\* The continuation of `await runAudit(...)`: clearInterval, then the record is
\* completed with the result, or (runAudit rejected) failed with the message.
AuditSettled(r) ==
    /\ run[r].pc = "settled"
    /\ timer' = [timer EXCEPT ![r] = NoTimer]
    /\ rec' = [rec EXCEPT ![r] =
                 IF Get(run[r].promise).state = "resolved"
                 THEN CompletedAudit(@, Get(run[r].promise).value)
                 ELSE FailedAudit(@, Get(run[r].promise).reason)]
    /\ run' = [run EXCEPT ![r].pc = "done"]
    /\ UNCHANGED << clients, now, config, audits, reports, responses, sa, fn >>

\* audits.values(): the records of the Map in the insertion order of their
\* keys; a key that was set again keeps its place and holds the later record
AuditValues ==
    LET RECURSIVE From(_)
        From(r) ==
            IF r > MaxRequests THEN << >>
            ELSE (IF /\ rec[r].id \in DOMAIN audits
                     /\ \A q \in 1..(r - 1) : rec[q].id # rec[r].id
                  THEN << rec[audits[rec[r].id]] >>
                  ELSE << >>) \o From(r + 1)
    IN From(1)

\* Array.prototype.sort with (a, b) => b.startedAt.getTime() - a.startedAt.getTime():
\* a stable sort, most recent first
RECURSIVE InsertByStartedAt(_, _)
InsertByStartedAt(sorted, a) ==
    IF sorted = << >> THEN << a >>
    ELSE IF Get(Head(sorted).startedAt) >= Get(a.startedAt)
         THEN << Head(sorted) >> \o InsertByStartedAt(Tail(sorted), a)
         ELSE << a >> \o sorted

RECURSIVE SortByStartedAt(_)
SortByStartedAt(list) ==
    IF list = << >> THEN << >>
    ELSE InsertByStartedAt(SortByStartedAt(SubSeq(list, 1, Len(list) - 1)), list[Len(list)])

\* the listing in the order of the Map
GetAuditsUnsorted ==
    /\ fn' = [op |-> "GET /api/audits", arg |-> AuditValues,
              ret |-> Some([audits |-> AuditValues])]
    /\ UNCHANGED << pipeline, sa >>

\* GET /api/audits: the records of the registry, copied into a new array and
\* sorted; the answer is { audits: allAudits }
GetAudits ==
    /\ fn' = [op |-> "GET /api/audits", arg |-> AuditValues,
              ret |-> Some([audits |-> SortByStartedAt(AuditValues)])]
    /\ UNCHANGED << pipeline, sa >>

\* the registry as the requests fill it and the background tasks start on
\* it, and the listing of it
NextRegistry ==
    \/ \E r \in Runs : PostAuditStart(r) \/ BackgroundStart(r) \/ ProgressTick(r)
    \/ GetAudits

SpecRegistry == InitConcurrent /\ [][NextRegistry]_vars

\* the requests of MaxRequests clients, with and without a repoUrl, and the
\* background tasks of the accepted ones up to their first await
NextRequests ==
    \E r \in Runs : PostAuditStartRequest(r) \/ BackgroundStart(r) \/ ProgressTick(r)

SpecRequests == InitConcurrent /\ [][NextRequests]_vars

(* --------------------------- telegramBot.ts ---------------------------- *)

\* what can happen to one message: the bot is not set up (the message is
\* skipped), or bot.sendMessage resolves, rejects, or stays pending (the
\* request to the Telegram API is never answered)
Deliveries == IF config.telegram THEN {"sent", "rejected", "pending"} ELSE {"skipped"}

\* a send whose rejection is not caught
sendTelegramMessageUncaught(delivery) ==
    CASE delivery = "rejected" -> "thrown"
      [] delivery = "pending" -> "pending"
      [] OTHER -> "resolved"

\* sendTelegramMessage: returns early when not configured, catches and logs a
\* rejection of `await bot.sendMessage(...)`; its own promise resolves when
\* bot.sendMessage has settled, and stays pending while that has not
sendTelegramMessage(delivery) ==
    IF delivery = "pending" THEN "pending" ELSE "resolved"

\* `await telegram.notify...(...)` in runAudit: the run goes on when the promise
\* resolves, takes the error when it rejects, and waits while it is pending
Awaited(rn, settled, resumed, thrown) ==
    CASE settled = "resolved" -> resumed
      [] settled = "thrown" -> thrown
      [] settled = "pending" -> [rn EXCEPT !.pc = "awaitingDelivery"]

\* a notification recorded ahead of the ones emitted before it
NotifiedOutOfTurn(rn, name, delivery) ==
    [rn EXCEPT !.notes = << name >> \o @, !.lost = @ \/ delivery # "sent"]

\* a notify* function was called and its message handed to sendTelegramMessage
Notified(rn, name, delivery) ==
    [rn EXCEPT !.notes = Append(@, name), !.lost = @ \/ delivery # "sent"]

(* -------------------------- smartAuditAgent.ts -------------------------- *)

\* an error thrown inside the try block of runAudit: the catch block takes the
\* message and runs up to `await telegram.notifyAuditError(...)`
Caught(rn, message) ==
    [rn EXCEPT !.pc = "notifyError", !.error = Some(message)]

\* an error thrown outside the try block of runAudit (before it, or inside its
\* catch block): the promise of runAudit rejects
Rejects(rn, message) ==
    [rn EXCEPT !.pc = "settled", !.promise = Some([state |-> "rejected", reason |-> message])]

\* a stage was invoked and ended: "ok", "failed" (it returned a failure result)
\* or "thrown" (it raised an error)
Invoked(rn, stage, outcome) ==
    [rn EXCEPT !.calls = Append(@, [stage |-> stage, outcome |-> outcome])]

\* if (request.runDynamicTests && config.enableDynamicTesting)
DynamicGate(opts) == opts.runDynamicTests /\ config.enableDynamicTesting

\* if (request.createPullRequest && config.enableAutoPR)
PullRequestGate(opts) == opts.createPullRequest /\ config.enableAutoPR

\* the AuditResult of the success path
SuccessResult(rn) ==
    [success |-> TRUE, auditId |-> Get(rn.auditId), findings |-> Get(rn.findings),
     fixes |-> Get(rn.fixes), dynamicTestResult |-> rn.dyn, prUrl |-> rn.prUrl,
     summary |-> Get(rn.summary), error |-> None]

\* a failure result that keeps what the run had produced before the error
FailureResultKeepingFindings(rn) ==
    [success |-> FALSE, auditId |-> Get(rn.auditId),
     findings |-> IF IsSome(rn.findings) THEN Get(rn.findings) ELSE << >>,
     fixes |-> << >>, dynamicTestResult |-> rn.dyn, prUrl |-> rn.prUrl,
     summary |-> IF IsSome(rn.summary) THEN Get(rn.summary) ELSE ZeroSummary,
     error |-> rn.error]

\* the AuditResult returned by the catch block
FailureResult(rn) ==
    [success |-> FALSE, auditId |-> Get(rn.auditId), findings |-> << >>,
     fixes |-> << >>, dynamicTestResult |-> None, prUrl |-> None,
     summary |-> ZeroSummary, error |-> rn.error]

Resolves(rn, result) ==
    [rn EXCEPT !.pc = "settled", !.promise = Some([state |-> "resolved", value |-> result])]

\* await telegram.notifyAuditStart(request.repoUrl, auditId)   (before the try)
NotifyAuditStart(r) ==
    /\ run[r].pc = "notifyStart"
    /\ \E d \in Deliveries :
        LET rn == Notified(run[r], "auditStart", d) IN
        run' = [run EXCEPT ![r] =
                  Awaited(rn, sendTelegramMessage(d),
                          [rn EXCEPT !.pc = "clone"],
                          Rejects(rn, "telegram error"))]
    /\ UNCHANGED << clients, now, config, audits, rec, timer, reports, responses, sa, fn >>

\* cloneRepository with the check of cloneResult.success left out
CloneRepositoryUnchecked(r) ==
    /\ run[r].pc = "clone"
    /\ \E success \in BOOLEAN :
        run' = [run EXCEPT ![r] =
                  [Invoked(@, "cloneRepository", IF success THEN "ok" ELSE "failed")
                     EXCEPT !.pc = "validate"]]
    /\ UNCHANGED << clients, now, config, audits, rec, timer, reports, responses, sa, fn >>

\* cloneRepository followed directly by the clone notification, validation left out
CloneRepositorySkippingValidation(r) ==
    /\ run[r].pc = "clone"
    /\ \E success \in BOOLEAN :
        LET rn == Invoked(run[r], "cloneRepository", IF success THEN "ok" ELSE "failed") IN
        run' = [run EXCEPT ![r] =
                  IF success
                  THEN [rn EXCEPT !.pc = "notifyClone"]
                  ELSE Caught(rn, "Clone failed: git error")]
    /\ UNCHANGED << clients, now, config, audits, rec, timer, reports, responses, sa, fn >>

\* const cloneResult = await cloneRepository(...); if (!cloneResult.success) throw
CloneRepository(r) ==
    /\ run[r].pc = "clone"
    /\ \E success \in BOOLEAN :
        LET rn == Invoked(run[r], "cloneRepository", IF success THEN "ok" ELSE "failed") IN
        run' = [run EXCEPT ![r] =
                  IF success
                  THEN [rn EXCEPT !.pc = "validate"]
                  ELSE Caught(rn, "Clone failed: git error")]
    /\ UNCHANGED << clients, now, config, audits, rec, timer, reports, responses, sa, fn >>

\* const validation = await validateSolidityRepo(...); if (!validation.isValid) throw
ValidateSolidityRepo(r) ==
    /\ run[r].pc = "validate"
    /\ \E isValid \in BOOLEAN :
        LET rn == Invoked(run[r], "validateSolidityRepo",
                          IF isValid THEN "ok" ELSE "failed") IN
        run' = [run EXCEPT ![r] =
                  IF isValid
                  THEN [rn EXCEPT !.pc = "notifyClone"]
                  ELSE Caught(rn, "No Solidity contracts found: no .sol files")]
    /\ UNCHANGED << clients, now, config, audits, rec, timer, reports, responses, sa, fn >>

\* await telegram.notifyCloneComplete(...)
NotifyCloneComplete(r) ==
    /\ run[r].pc = "notifyClone"
    /\ \E d \in Deliveries :
        LET rn == Notified(run[r], "cloneComplete", d) IN
        run' = [run EXCEPT ![r] =
                  Awaited(rn, sendTelegramMessage(d),
                          [rn EXCEPT !.pc = "static"],
                          Caught(rn, "telegram error"))]
    /\ UNCHANGED << clients, now, config, audits, rec, timer, reports, responses, sa, fn >>

\* what a successful runStaticAnalysis returns: for a single client any of the
\* finding lists, for concurrent clients (whose audits differ in what fails,
\* not in the payloads) the sample list
StaticOutputs == IF clients = 1 THEN FindingsInputs ELSE {SampleFindings}

\* runStaticAnalysis with a result without findings treated as a failure
RunStaticAnalysisRejectingEmpty(r) ==
    /\ run[r].pc = "static"
    /\ \/ run' = [run EXCEPT ![r] =
                    Caught(Invoked(@, "runStaticAnalysis", "failed"),
                           "Static analysis failed: analyzer error")]
       \/ \E fs \in StaticOutputs :
            run' = [run EXCEPT ![r] =
                      IF fs = << >>
                      THEN Caught([Invoked(@, "runStaticAnalysis", "ok") EXCEPT
                                      !.summary = Some(Summarize(fs)), !.returned = Some(fs),
                                      !.findings = Some(fs)],
                                  "Static analysis failed: no findings")
                      ELSE [Invoked(@, "runStaticAnalysis", "ok") EXCEPT
                               !.pc = "notifyStatic",
                               !.summary = Some(Summarize(fs)), !.returned = Some(fs),
                               !.findings = Some(SortByPriority(fs)),
                               !.topFindings = Slice(SortByPriority(fs), TopK)]]
    /\ UNCHANGED << clients, now, config, audits, rec, timer, reports, responses, sa, fn >>

\* const staticResult = await runStaticAnalysis(...); if (!staticResult.success)
\* throw; then the findings array is sorted in place and its first 5 are taken
RunStaticAnalysis(r) ==
    /\ run[r].pc = "static"
    /\ \/ run' = [run EXCEPT ![r] =
                    Caught(Invoked(@, "runStaticAnalysis", "failed"),
                           "Static analysis failed: analyzer error")]
       \/ \E fs \in StaticOutputs :
            run' = [run EXCEPT ![r] =
                      [Invoked(@, "runStaticAnalysis", "ok") EXCEPT !.pc = "notifyStatic",
                                 !.summary = Some(Summarize(fs)), !.returned = Some(fs),
                                 !.findings = Some(SortByPriority(fs)),
                                 !.topFindings = Slice(SortByPriority(fs), TopK)]]
    /\ UNCHANGED << clients, now, config, audits, rec, timer, reports, responses, sa, fn >>

\* await telegram.notifyStaticAnalysisComplete(...), then the dynamic-test gate
NotifyStaticAnalysisComplete(r) ==
    /\ run[r].pc = "notifyStatic"
    /\ \E d \in Deliveries :
        LET rn == Notified(run[r], "staticAnalysisComplete", d) IN
        run' = [run EXCEPT ![r] =
                  Awaited(rn, sendTelegramMessage(d),
                          [rn EXCEPT !.pc = IF DynamicGate(rn.opts) THEN "dynamic" ELSE "fixes"],
                          Caught(rn, "telegram error"))]
    /\ UNCHANGED << clients, now, config, audits, rec, timer, reports, responses, sa, fn >>

\* runDynamicTests never throws: it returns success: false when no RPC URL
\* works (none is configured), the wallet cannot be built (no private key),
\* or compilation fails; it can succeed only with both credentials
DynamicTestOutcomes ==
    IF config.testnetPrivateKey /\ config.rpcUrls THEN {TRUE, FALSE} ELSE {FALSE}

\* runDynamicTests treated as a hard stage: a failed result is thrown
RunDynamicTestsHard(r) ==
    /\ run[r].pc = "dynamic"
    /\ \E success \in DynamicTestOutcomes :
        LET rn == Invoked(run[r], "runDynamicTests", IF success THEN "ok" ELSE "failed") IN
        run' = [run EXCEPT ![r] =
                  IF success
                  THEN [rn EXCEPT !.dyn = Some([success |-> TRUE]), !.pc = "notifyDynamic"]
                  ELSE Caught([rn EXCEPT !.dyn = Some([success |-> FALSE])],
                              "Dynamic tests failed")]
    /\ UNCHANGED << clients, now, config, audits, rec, timer, reports, responses, sa, fn >>

\* runDynamicTests called again after a failed result
RunDynamicTestsRetrying(r) ==
    /\ run[r].pc = "dynamic"
    /\ \E success \in DynamicTestOutcomes :
        LET rn == Invoked(run[r], "runDynamicTests", IF success THEN "ok" ELSE "failed") IN
        run' = [run EXCEPT ![r] =
                  [rn EXCEPT !.dyn = Some([success |-> success]),
                             !.pc = IF success THEN "notifyDynamic"
                                    ELSE IF run[r].dyn = None THEN "dynamic" ELSE "fixes"]]
    /\ UNCHANGED << clients, now, config, audits, rec, timer, reports, responses, sa, fn >>

\* dynamicResult = await runDynamicTests(...); only a successful result is notified
RunDynamicTests(r) ==
    /\ run[r].pc = "dynamic"
    /\ \E success \in DynamicTestOutcomes :
        LET rn == Invoked(run[r], "runDynamicTests", IF success THEN "ok" ELSE "failed") IN
        run' = [run EXCEPT ![r] =
                  [rn EXCEPT !.dyn = Some([success |-> success]),
                             !.pc = IF success THEN "notifyDynamic" ELSE "fixes"]]
    /\ UNCHANGED << clients, now, config, audits, rec, timer, reports, responses, sa, fn >>

\* await telegram.notifyDynamicTestsComplete(...)
NotifyDynamicTestsComplete(r) ==
    /\ run[r].pc = "notifyDynamic"
    /\ \E d \in Deliveries :
        LET rn == Notified(run[r], "dynamicTestsComplete", d) IN
        run' = [run EXCEPT ![r] =
                  Awaited(rn, sendTelegramMessage(d),
                          [rn EXCEPT !.pc = "fixes"],
                          Caught(rn, "telegram error"))]
    /\ UNCHANGED << clients, now, config, audits, rec, timer, reports, responses, sa, fn >>

\* the fix lists generateFixes may return for these findings: none, or (single
\* client) a fix for the first finding
FixesOutputs(findings) ==
    { << >> } \cup (IF findings = << >> \/ clients > 1 THEN {} ELSE { << findings[1].id >> })

\* const fixesResult = await generateFixes(...), then the pull-request gate
GenerateFixes(r) ==
    /\ run[r].pc = "fixes"
    /\ \/ run' = [run EXCEPT ![r] =
                    Caught(Invoked(@, "generateFixes", "thrown"), "generateFixes error")]
       \/ \E fixes \in FixesOutputs(Get(run[r].findings)) :
            run' = [run EXCEPT ![r] =
                      [Invoked(@, "generateFixes", "ok") EXCEPT
                          !.fixes = Some(fixes),
                          !.pc = IF PullRequestGate(run[r].opts) THEN "pr" ELSE "report"]]
    /\ UNCHANGED << clients, now, config, audits, rec, timer, reports, responses, sa, fn >>

\* what createPR may do: return a result with a prUrl (needs the GitHub
\* token), return a result without one, or throw
CreatePROutcomes ==
    {"failed", "thrown"} \cup (IF config.githubToken THEN {"created"} ELSE {})

\* const prResult = await createPR(...); prUrl = prResult.prUrl; if (prUrl) notify
CreatePR(r) ==
    /\ run[r].pc = "pr"
    /\ \E outcome \in CreatePROutcomes :
        LET rn == Invoked(run[r], "createPR",
                          IF outcome = "created" THEN "ok" ELSE outcome) IN
        run' = [run EXCEPT ![r] =
                  CASE outcome = "created" ->
                         [rn EXCEPT !.prUrl = Some("https://github.com/pull/1"),
                                    !.pc = "notifyPR"]
                    [] outcome = "failed" -> [rn EXCEPT !.pc = "report"]
                    [] outcome = "thrown" -> Caught(rn, "createPR error")]
    /\ UNCHANGED << clients, now, config, audits, rec, timer, reports, responses, sa, fn >>

\* await telegram.notifyPRCreated(...)
NotifyPRCreated(r) ==
    /\ run[r].pc = "notifyPR"
    /\ \E d \in Deliveries :
        LET rn == Notified(run[r], "prCreated", d) IN
        run' = [run EXCEPT ![r] =
                  Awaited(rn, sendTelegramMessage(d),
                          [rn EXCEPT !.pc = "report"],
                          Caught(rn, "telegram error"))]
    /\ UNCHANGED << clients, now, config, audits, rec, timer, reports, responses, sa, fn >>

\* the report step with the write left out
WriteReportSkipped(r) ==
    /\ run[r].pc = "report"
    /\ run' = [run EXCEPT ![r].pc = "notifyComplete"]
    /\ UNCHANGED << clients, now, config, audits, rec, timer, reports, responses, sa, fn >>

\* fs.mkdir(memory/<auditId>) and fs.writeFile(.../audit-report.json): the file
\* is written (replacing one of the same name), or one of the two calls throws
WriteReport(r) ==
    /\ run[r].pc = "report"
    /\ \/ /\ run' = [run EXCEPT ![r] =
                       [Invoked(@, "writeReport", "ok") EXCEPT !.pc = "notifyComplete",
                                                                !.writes = @ + 1]]
          /\ reports' = MapSet(reports, Get(run[r].auditId), r)
       \/ /\ run' = [run EXCEPT ![r] = Caught(Invoked(@, "writeReport", "thrown"), "write error")]
          /\ UNCHANGED reports
    /\ UNCHANGED << clients, now, config, audits, rec, timer, responses, sa, fn >>

\* the completion notification with a rejected send left uncaught
NotifyAuditCompleteUncaught(r) ==
    /\ run[r].pc = "notifyComplete"
    /\ \E d \in Deliveries :
        LET rn == Notified(run[r], "auditComplete", d) IN
        run' = [run EXCEPT ![r] =
                  Awaited(rn, sendTelegramMessageUncaught(d),
                          Resolves(rn, SuccessResult(rn)),
                          Caught(rn, "telegram error"))]
    /\ UNCHANGED << clients, now, config, audits, rec, timer, reports, responses, sa, fn >>

\* await telegram.notifyAuditComplete(result); return result
NotifyAuditComplete(r) ==
    /\ run[r].pc = "notifyComplete"
    /\ \E d \in Deliveries :
        LET rn == Notified(run[r], "auditComplete", d) IN
        run' = [run EXCEPT ![r] =
                  Awaited(rn, sendTelegramMessage(d),
                          Resolves(rn, SuccessResult(rn)),
                          Caught(rn, "telegram error"))]
    /\ UNCHANGED << clients, now, config, audits, rec, timer, reports, responses, sa, fn >>

\* the catch block: await telegram.notifyAuditError(...); return the failure result
NotifyAuditError(r) ==
    /\ run[r].pc = "notifyError"
    /\ \E d \in Deliveries :
        LET rn == Notified(run[r], "auditError", d) IN
        run' = [run EXCEPT ![r] =
                  Awaited(rn, sendTelegramMessage(d),
                          Resolves(rn, FailureResult(rn)),
                          Rejects(rn, "telegram error"))]
    /\ UNCHANGED << clients, now, config, audits, rec, timer, reports, responses, sa, fn >>

(* ------------------------ runStaticAnalysis.ts ------------------------- *)

\* the analyzers, in the order of the array handed to Promise.all
Analyzers == << "Slither", "Solhint", "PatternCheck" >>

Tools == {Analyzers[i] : i \in 1..Len(Analyzers)}

\* the entries of the object literal SEVERITY_MAP
SeverityTable ==
    [level \in {"High", "Medium", "Low", "Informational", "error", "warning", "info"} |->
        CASE level = "High" -> "high"
          [] level = "Medium" -> "medium"
          [] level = "Low" -> "low"
          [] level = "Informational" -> "info"
          [] level = "error" -> "high"
          [] level = "warning" -> "medium"
          [] level = "info" -> "info"]

\* the value undefined
Undefined == "undefined"

\* names every object literal inherits from Object.prototype
ObjectPrototypeProperties == {"constructor", "toString", "valueOf", "hasOwnProperty"}

\* the (function) value of an inherited property
InheritedProperty == "[Function]"

\* SEVERITY_MAP[level]: property access on a plain object, which finds the
\* table's entries and, for their names, the members of Object.prototype
SEVERITY_MAP(level) ==
    IF level \in DOMAIN SeverityTable THEN SeverityTable[level]
    ELSE IF level \in ObjectPrototypeProperties THEN InheritedProperty
    ELSE Undefined

\* value || fallback: undefined and the empty string are falsy
OrElse(value, fallback) == IF value \in {Undefined, ""} THEN fallback ELSE value

\* String.prototype.toLowerCase on the words of this model
toLowerCase(word) ==
    CASE word = "High" -> "high"
      [] word = "Medium" -> "medium"
      [] word = "Low" -> "low"
      [] word = "Certain" -> "certain"
      [] OTHER -> word

\* the decimal digits of a positive number, most significant first
RECURSIVE Digits(_)
Digits(n) == IF n < 10 THEN << n >> ELSE Append(Digits(n \div 10), n % 10)

\* String.prototype.padStart(len, '0') on a digit string
RECURSIVE padStart(_, _)
padStart(digits, len) ==
    IF Len(digits) >= len THEN digits ELSE padStart(<< 0 >> \o digits, len)

\* ids that keep the last three digits of the counter and no prefix
FindingIdUnprefixed(prefix, idCounter) == << "", padStart(Digits(idCounter % 1000), 3) >>

\* `SLTH-${String(idCounter).padStart(3, '0')}` and its two siblings
FindingId(prefix, idCounter) == << prefix, padStart(Digits(idCounter), 3) >>

IdPrefix(tool) ==
    CASE tool = "Slither" -> "SLTH"
      [] tool = "Solhint" -> "SLNT"
      [] tool = "PatternCheck" -> "PTRN"

\* one entry of an analyzer's output: a Slither detector, a Solhint issue, or
\* a line of a file matching a pattern
RawItem(file, line, title, level, confidence) ==
    [file |-> file, line |-> line, title |-> title, level |-> level,
     confidence |-> confidence, broken |-> FALSE]

\* an entry whose processing raises: a null detector or report in the parsed
\* JSON, a file that cannot be read
BrokenItem ==
    [file |-> "", line |-> 0, title |-> "", level |-> "", confidence |-> None,
     broken |-> TRUE]

\* the entries the analyzers report in this model; Slither and Solhint can
\* report the same file, line and title, and each reports one entry with a
\* level that is no key of SEVERITY_MAP
ItemsOf(tool) ==
    CASE tool = "Slither" ->
           { RawItem("A.sol", 1, "tx-origin", "High", Some("High")),
             RawItem("A.sol", 2, "reentrancy", "Critical", None),
             BrokenItem }
      [] tool = "Solhint" ->
           { RawItem("A.sol", 1, "tx-origin", "error", None),
             RawItem("A.sol", 2, "no-console", "constructor", None),
             BrokenItem }
      [] tool = "PatternCheck" ->
           { RawItem("A.sol", 1, "tx.origin usage detected", "high", None),
             RawItem("A.sol", 2, "selfdestruct usage detected", "medium", None),
             BrokenItem }

\* how an analyzer can fail before it has any entry: the process cannot be
\* spawned, its output is not JSON, the repository directory cannot be listed
FaultsOf(tool) ==
    IF tool = "PatternCheck" THEN {"readdir"} ELSE {"spawn", "unparsable"}

SeqsUpTo(S, n) == UNION {[1..k -> S] : k \in 0..n}

\* what an analyzer run can produce
RawOutputs(tool) ==
    {[fault |-> "none", items |-> items] : items \in SeqsUpTo(ItemsOf(tool), MaxItems)}
        \cup {[fault |-> f, items |-> << >>] : f \in FaultsOf(tool)}

\* the Finding an analyzer builds from one entry
NormalizedFinding(tool, idCounter, item) ==
    [id |-> FindingId(IdPrefix(tool), idCounter),
     file |-> item.file,
     line |-> item.line,
     title |-> item.title,
     severity |-> IF tool = "PatternCheck" THEN item.level
                  ELSE OrElse(SEVERITY_MAP(item.level), "info"),
     confidence |-> IF tool = "Slither"
                    THEN OrElse(IF IsSome(item.confidence)
                                THEN toLowerCase(Get(item.confidence))
                                ELSE Undefined, "medium")
                    ELSE "medium",
     tool |-> tool]

\* the loop over the entries: each is pushed onto `findings` with the next
\* id; when one raises, the catch block logs and the findings pushed so far
\* are what the analyzer resolves with
RECURSIVE PushFindings(_, _, _, _)
PushFindings(tool, items, idCounter, findings) ==
    IF items = << >> \/ Head(items).broken
    THEN findings
    ELSE PushFindings(tool, Tail(items), idCounter + 1,
                      Append(findings, NormalizedFinding(tool, idCounter, Head(items))))

\* runSlither, runSolhint, runPatternChecks: none of them rejects
runAnalyzer(tool, raw) ==
    IF raw.fault # "none" THEN << >> ELSE PushFindings(tool, raw.items, 1, << >>)

\* the three analyzers have been started and the combination keeps the
\* order in which they settled
AllFindingsAsSettled(slitherFindings, solhintFindings, patternFindings) ==
    Get(sa.done[sa.order[1]]) \o Get(sa.done[sa.order[2]]) \o Get(sa.done[sa.order[3]])

SameIssue(f, g) == f.file = g.file /\ f.line = g.line /\ f.title = g.title

\* the combination with a finding dropped when an earlier one reports the
\* same file, line and title
AllFindingsDeduplicated(slitherFindings, solhintFindings, patternFindings) ==
    LET all == slitherFindings \o solhintFindings \o patternFindings IN
    LET kept == {i \in 1..Len(all) : \A h \in 1..(i - 1) : ~SameIssue(all[h], all[i])}
        RECURSIVE Keep(_)
        Keep(i) == IF i > Len(all) THEN << >>
                   ELSE (IF i \in kept THEN << all[i] >> ELSE << >>) \o Keep(i + 1)
    IN Keep(1)

\* const allFindings = [...slitherFindings, ...solhintFindings, ...patternFindings]
AllFindings(slitherFindings, solhintFindings, patternFindings) ==
    slitherFindings \o solhintFindings \o patternFindings

\* const toolsRun = ['PatternCheck']; Slither and Solhint are added when they found something
ToolsRun(slitherFindings, solhintFindings) ==
    << "PatternCheck" >> \o (IF Len(slitherFindings) > 0 THEN << "Slither" >> ELSE << >>)
                         \o (IF Len(solhintFindings) > 0 THEN << "Solhint" >> ELSE << >>)

\* the value runStaticAnalysis returns from its try block
StaticAnalysisResult(slitherFindings, solhintFindings, patternFindings) ==
    LET allFindings == AllFindings(slitherFindings, solhintFindings, patternFindings) IN
    [success |-> TRUE,
     findings |-> allFindings,
     summary |-> Summarize(allFindings),
     toolsRun |-> ToolsRun(slitherFindings, solhintFindings)]

NoOutput == [fault |-> "none", items |-> << >>]

\* runStaticAnalysis is not running
IdleAnalysis(raw) ==
    [pc |-> "idle",
     raw |-> raw,                        \* what each analyzer will produce
     started |-> << >>,                  \* the analyzers called, in order
     done |-> [t \in Tools |-> None],    \* the value each analyzer's promise resolved with
     order |-> << >>,                    \* the analyzers in the order they settled
     result |-> None]                    \* the StaticAnalysisResult returned

\* one static analysis, for every output of the three analyzers
InitAnalysis ==
    /\ clients = 0
    /\ config = ProvisionedConfig
    /\ InitState
    /\ \E raw \in [Tools -> UNION {RawOutputs(t) : t \in Tools}] :
        /\ \A t \in Tools : raw[t] \in RawOutputs(t)
        /\ sa = IdleAnalysis(raw)
    /\ fn = NoCall

\* runStaticAnalysis is called: the array [runSlither(..), runSolhint(..),
\* runPatternChecks(..)] is evaluated, each call running up to its first
\* suspension, and Promise.all of it is awaited
StartAnalyzers ==
    /\ sa.pc = "idle"
    /\ sa' = [sa EXCEPT !.pc = "awaiting", !.started = Analyzers]
    /\ UNCHANGED << pipeline, fn >>

\* the promise of one analyzer resolves
AnalyzerSettles(tool) ==
    /\ sa.pc = "awaiting"
    /\ \E i \in 1..Len(sa.started) : sa.started[i] = tool
    /\ sa.done[tool] = None
    /\ sa' = [sa EXCEPT !.done[tool] = Some(runAnalyzer(tool, sa.raw[tool])),
                        !.order = Append(@, tool)]
    /\ UNCHANGED << pipeline, fn >>

\* the continuation of `await Promise.all([...])`: combine, summarise, return
CombineFindings ==
    /\ sa.pc = "awaiting"
    /\ \A t \in Tools : IsSome(sa.done[t])
    /\ sa' = [sa EXCEPT !.pc = "returned",
                         !.result = Some(StaticAnalysisResult(Get(sa.done["Slither"]),
                                                              Get(sa.done["Solhint"]),
                                                              Get(sa.done["PatternCheck"])))]
    /\ UNCHANGED << pipeline, fn >>

NextAnalysis ==
    \/ StartAnalyzers
    \/ \E tool \in Tools : AnalyzerSettles(tool)
    \/ CombineFindings

SpecAnalysis == InitAnalysis /\ [][NextAnalysis]_vars

(* ------------------- the normalizer, function by function ------------------- *)

\* the native severity words an analyzer may report: the keys of the table,
\* a word the table does not have, the name of a member of Object.prototype,
\* no word at all (the property is missing), the empty string
NativeLevels ==
    DOMAIN SeverityTable \cup {"Critical", "constructor", Undefined, ""}

\* the native confidence of a Slither detector: missing, or a word
NativeConfidences ==
    {None, Some("High"), Some("Medium"), Some("Low"), Some("Certain"), Some("")}

\* the severities of the pattern table of runPatternChecks
PatternSeverities == {"medium", "high"}

\* the entries the analyzers may turn into a Finding
NativeEntries(tool) ==
    IF tool = "PatternCheck"
    THEN {RawItem("A.sol", 1, "tx.origin usage detected", level, None) :
             level \in PatternSeverities}
    ELSE {RawItem("A.sol", 1, "tx-origin", level, confidence) :
             level \in NativeLevels, confidence \in NativeConfidences}

\* findings that differ in priority, two of them with the same score
ScoredFindings ==
    { [severity |-> "low", confidence |-> "medium"],
      [severity |-> "medium", confidence |-> "low"],
      [severity |-> "high", confidence |-> "medium"] }

\* a finding whose confidence is no word of the vocabulary
UnscoredFinding == [severity |-> "high", confidence |-> "certain"]

\* the findings of a list get the ids of one analyzer, in their order
Numbered(kinds) ==
    [i \in 1..Len(kinds) |->
        [id |-> FindingId("SLTH", i), severity |-> kinds[i].severity,
         confidence |-> kinds[i].confidence]]

\* the lists of findings the top findings are selected from
TopInputs ==
    {Numbered(kinds) : kinds \in SeqsUpTo(ScoredFindings, MaxFindings)}
        \cup {Numbered(kinds) :
                 kinds \in {k \in SeqsUpTo(ScoredFindings \cup {UnscoredFinding}, MaxUnscored) :
                               \E i \in 1..Len(k) : k[i] = UnscoredFinding}}

Reorderings(fs) ==
    {[i \in 1..Len(fs) |-> fs[p[i]]] :
        p \in {q \in [1..Len(fs) -> 1..Len(fs)] : \A i, j \in 1..Len(fs) : q[i] = q[j] => i = j}}

\* Array.prototype.sort with the comparator (a, b) => score(b) - score(a):
\* the stable descending order when every score is a number; when a score is
\* NaN the comparator is not consistent and the order is
\* implementation-defined
SortOutcomes(fs) ==
    IF \A i \in 1..Len(fs) : calculatePriorityScore(fs[i]) # NaN
    THEN {SortByPriority(fs)}
    ELSE Reorderings(fs)

\* one function is called, with every argument of this model
InitFunctions ==
    /\ clients = 0
    /\ config = ProvisionedConfig
    /\ InitState
    /\ sa = NoAnalysis
    /\ \/ \E tool \in Tools, item \in UNION {NativeEntries(t) : t \in Tools} :
            /\ item \in NativeEntries(tool)
            /\ fn = [op |-> "normalize", arg |-> [tool |-> tool, item |-> item],
                       ret |-> None]
       \/ \E severity \in Severities, confidence \in Confidences :
            fn = [op |-> "calculatePriorityScore",
                    arg |-> [severity |-> severity, confidence |-> confidence],
                    ret |-> None]
       \/ \E findings \in TopInputs :
            fn = [op |-> "topFindings", arg |-> findings, ret |-> None]

\* an analyzer builds the Finding of one entry
Normalize ==
    /\ fn.op = "normalize"
    /\ fn.ret = None
    /\ fn' = [fn EXCEPT !.ret = Some(NormalizedFinding(fn.arg.tool, 1, fn.arg.item))]
    /\ UNCHANGED << pipeline, sa >>

\* calculatePriorityScore(finding)
Score ==
    /\ fn.op = "calculatePriorityScore"
    /\ fn.ret = None
    /\ fn' = [fn EXCEPT !.ret = Some(calculatePriorityScore(fn.arg))]
    /\ UNCHANGED << pipeline, sa >>

\* runAudit: const topFindings = staticResult.findings.sort(...).slice(0, 5)
\* (the array is sorted in place, topFindings is a new array)
SelectTopFindings ==
    /\ fn.op = "topFindings"
    /\ fn.ret = None
    /\ \E sorted \in SortOutcomes(fn.arg) :
        fn' = [fn EXCEPT !.ret = Some([findings |-> sorted,
                                           topFindings |-> Slice(sorted, TopK)])]
    /\ UNCHANGED << pipeline, sa >>

NextFunctions ==
    \/ Normalize
    \/ Score
    \/ SelectTopFindings

SpecFunctions == InitFunctions /\ [][NextFunctions]_vars

(* -------------------------------- retry -------------------------------- *)

\* what one invocation of fn can reject with: an Error, or a value that is
\* not an Error (a string, an object)
Rejections ==
    {[kind |-> "Error", text |-> "ETIMEDOUT"], [kind |-> "Error", text |-> "ECONNRESET"],
     [kind |-> "string", text |-> "ETIMEDOUT"], [kind |-> "object", text |-> "code 429"]}

\* the outcomes of one invocation of fn
FnOutcomes ==
    [ok : {TRUE}, value : {"v1", "v2"}] \cup [ok : {FALSE}, value : Rejections]

\* String(error)
StringOf(error) == IF error.kind = "object" THEN "[object Object]" ELSE error.text

\* error instanceof Error ? error : new Error(String(error))
AsError(error) ==
    IF error.kind = "Error" THEN error ELSE [kind |-> "Error", text |-> StringOf(error)]

\* retry(fn, maxRetries, delayMs) when it is called: let lastError, i = 0
RetryCall(maxRetries, delayMs) ==
    [op |-> "retry",
     maxRetries |-> maxRetries,
     delayMs |-> delayMs,
     pc |-> "loop",
     i |-> 0,
     lastError |-> None,
     attempts |-> << >>,        \* the outcomes of the invocations of fn, in order
     waits |-> << >>,           \* the sleeps, in order: [after |-> i, ms |-> ...]
     ret |-> None]

InitRetry ==
    /\ clients = 0
    /\ config = ProvisionedConfig
    /\ InitState
    /\ sa = NoAnalysis
    /\ \E maxRetries \in 0..MaxRetries, delayMs \in {0, 1000} :
         fn = RetryCall(maxRetries, delayMs)

\* a sleep of delayMs whatever the attempt
SleepConstant ==
    /\ fn.op = "retry" /\ fn.pc = "sleep"
    /\ fn' = [fn EXCEPT !.waits = Append(@, [after |-> fn.i, ms |-> fn.delayMs]),
                        !.i = @ + 1,
                        !.pc = "loop"]
    /\ UNCHANGED << pipeline, sa >>

\* one pass of the loop up to the end of fn: `return await fn()` returns the
\* value, or the catch block keeps the error and, if i < maxRetries - 1,
\* goes to sleep
Attempt ==
    /\ fn.op = "retry" /\ fn.pc = "loop"
    /\ fn.i < fn.maxRetries
    /\ \E outcome \in FnOutcomes :
        fn' = IF outcome.ok
              THEN [fn EXCEPT !.attempts = Append(@, outcome),
                              !.pc = "done",
                              !.ret = Some([raised |-> FALSE, value |-> outcome.value])]
              ELSE [fn EXCEPT !.attempts = Append(@, outcome),
                              !.lastError = Some(AsError(outcome.value)),
                              !.pc = IF fn.i < fn.maxRetries - 1 THEN "sleep" ELSE "loop",
                              !.i = IF fn.i < fn.maxRetries - 1 THEN @ ELSE @ + 1]
    /\ UNCHANGED << pipeline, sa >>

\* await sleep(delayMs * Math.pow(2, i)), then i++
Sleep ==
    /\ fn.op = "retry" /\ fn.pc = "sleep"
    /\ fn' = [fn EXCEPT !.waits = Append(@, [after |-> fn.i, ms |-> fn.delayMs * 2^fn.i]),
                        !.i = @ + 1,
                        !.pc = "loop"]
    /\ UNCHANGED << pipeline, sa >>

\* the loop is left: throw lastError (undefined when there was no attempt)
ThrowLastError ==
    /\ fn.op = "retry" /\ fn.pc = "loop"
    /\ fn.i >= fn.maxRetries
    /\ fn' = [fn EXCEPT !.pc = "done",
                        !.ret = Some([raised |-> TRUE, value |-> fn.lastError])]
    /\ UNCHANGED << pipeline, sa >>

NextRetry ==
    \/ Attempt
    \/ Sleep
    \/ ThrowLastError

SpecRetry == InitRetry /\ [][NextRetry]_vars

(* --------------------------- runPatternChecks --------------------------- *)

\* the pattern table: the text each regular expression matches, in the
\* order of the array
Patterns ==
    << [text |-> ".call{value:", title |-> "Low-level call detected", severity |-> "medium"],
       [text |-> "tx.origin", title |-> "tx.origin usage detected", severity |-> "high"],
       [text |-> "selfdestruct", title |-> "selfdestruct usage detected", severity |-> "medium"],
       [text |-> "delegatecall", title |-> "delegatecall usage detected", severity |-> "high"] >>

\* a line is a sequence of words: a text of the pattern table, or any other
\* text; the positions of a regular expression are counted in words
Words == {"_", "tx.origin", "selfdestruct"}

SourceLines == SeqsUpTo(Words, MaxLineLen)

\* content.split('\n') of a file
SourceFiles == SeqsUpTo(SourceLines, MaxLines)

\* path.relative(repoPath, filePath) of the f-th file of solFiles
FileName(f) == << "contracts", f >>

\* the line contains the text of the pattern
Contains(line, pattern) == \E i \in 1..Len(line) : line[i] = pattern.text

\* the places of a pattern in a line at or after lastIndex
MatchesFrom(line, pattern, lastIndex) ==
    {i \in (lastIndex + 1)..Len(line) : line[i] = pattern.text}

\* RegExp.prototype.test of a regular expression with the g flag: the search
\* starts at lastIndex; a match leaves lastIndex at its end, a failure
\* resets lastIndex to 0
RegExpTest(line, pattern, lastIndex) ==
    LET matches == MatchesFrom(line, pattern, lastIndex) IN
    IF matches = {}
    THEN [found |-> FALSE, lastIndex |-> 0]
    ELSE [found |-> TRUE,
          lastIndex |-> CHOOSE i \in matches : \A j \in matches : i <= j]

\* the tests of one file, in the order of the loops: for each pattern, each
\* line of the file
FileTests(f, n) ==
    [i \in 1..(Len(Patterns) * n) |->
        [file |-> f, pattern |-> ((i - 1) \div n) + 1, line |-> ((i - 1) % n) + 1]]

\* the tests of a run: for each file, its tests
RECURSIVE TestsFrom(_, _)
TestsFrom(files, f) ==
    IF f > Len(files) THEN << >>
    ELSE FileTests(f, Len(files[f])) \o TestsFrom(files, f + 1)

\* runPatternChecks has read the repository and built its pattern table
PatternRun(files) ==
    [op |-> "runPatternChecks",
     arg |-> files,                                     \* the lines of solFiles
     tests |-> TestsFrom(files, 1),                     \* the tests the loops will make
     done |-> 0,                                        \* how many tests were made
     lastIndex |-> [p \in 1..Len(Patterns) |-> 0],      \* patterns[p].regex.lastIndex
     findings |-> << >>,
     ret |-> None]

InitPatterns ==
    /\ clients = 0
    /\ config = ProvisionedConfig
    /\ InitState
    /\ sa = NoAnalysis
    /\ \E files \in SeqsUpTo(SourceFiles, MaxFiles) : fn = PatternRun(files)

\* one `if (pattern.regex.test(line)) { findings.push(...); idCounter++ }`
TestLine ==
    /\ fn.op = "runPatternChecks"
    /\ fn.done < Len(fn.tests)
    /\ LET t == fn.tests[fn.done + 1]
           pattern == Patterns[t.pattern]
           test == RegExpTest(fn.arg[t.file][t.line], pattern, fn.lastIndex[t.pattern])
           idCounter == Len(fn.findings) + 1
       IN  fn' = [fn EXCEPT
                    !.done = @ + 1,
                    !.lastIndex[t.pattern] = test.lastIndex,
                    !.findings =
                        IF test.found
                        THEN Append(@, NormalizedFinding("PatternCheck", idCounter,
                                          RawItem(FileName(t.file), t.line, pattern.title,
                                                  pattern.severity, None)))
                        ELSE @]
    /\ UNCHANGED << pipeline, sa >>

\* return findings
ReturnFindings ==
    /\ fn.op = "runPatternChecks"
    /\ fn.done = Len(fn.tests)
    /\ fn.ret = None
    /\ fn' = [fn EXCEPT !.ret = Some(fn.findings)]
    /\ UNCHANGED << pipeline, sa >>

NextPatterns == TestLine \/ ReturnFindings

SpecPatterns == InitPatterns /\ [][NextPatterns]_vars

(* ---------------------------- runDynamicTests ---------------------------- *)

\* the summary of a result without deployments and transactions
ZeroDynamicSummary ==
    [totalDeployed |-> 0, totalTransactions |-> 0, successfulTx |-> 0, failedTx |-> 0]

\* runDynamicTests is called: config.rpcUrls with what each URL will answer
\* to getBlockNumber, and the artifacts directory (missing, or with so many
\* artifact files)
DynamicRun(rpcUrls, artifacts) ==
    [op |-> "runDynamicTests",
     rpcUrls |-> rpcUrls,
     artifacts |-> artifacts,
     pc |-> "selectBestRPC",
     compiled |-> None,
     tried |-> 0,               \* the artifacts deployContracts has gone through
     deployments |-> << >>,
     transactions |-> << >>,
     ret |-> None]

InitDynamic ==
    /\ clients = 0
    /\ config = ProvisionedConfig
    /\ InitState
    /\ sa = NoAnalysis
    /\ \E rpcUrls \in SeqsUpTo({"up", "down"}, MaxRpcUrls),
          artifacts \in {None} \cup {Some(n) : n \in 0..MaxArtifacts} :
         fn = DynamicRun(rpcUrls, artifacts)

\* the catch block of runDynamicTests: the failure result is returned
DynamicFailure(message) ==
    [success |-> FALSE, deployments |-> << >>, transactions |-> << >>,
     summary |-> ZeroDynamicSummary, error |-> Some(message)]

Down(rpcUrls) == {i \in 1..Len(rpcUrls) : rpcUrls[i] = "down"}

\* selectBestRPC: the URLs are sorted by latency and the first is taken; a
\* URL that is down has latency Infinity, and with two of them the
\* comparator returns NaN (Infinity - Infinity), so the order of the sort
\* is implementation-defined and the first may be a URL that is down
BestIsUp(rpcUrls) ==
    IF Cardinality(Down(rpcUrls)) = Len(rpcUrls) THEN {FALSE}
    ELSE IF Cardinality(Down(rpcUrls)) >= 2 THEN {TRUE, FALSE}
    ELSE {TRUE}

\* const rpcUrl = await selectBestRPC(config.rpcUrls): raises when the list
\* is empty (best is undefined) or the best URL is down
SelectBestRPC ==
    /\ fn.op = "runDynamicTests" /\ fn.pc = "selectBestRPC"
    /\ \E up \in BestIsUp(fn.rpcUrls) :
        fn' = IF up
              THEN [fn EXCEPT !.pc = "wallet"]
              ELSE [fn EXCEPT !.pc = "returned",
                              !.ret = Some(DynamicFailure("No working RPC URLs found"))]
    /\ UNCHANGED << pipeline, sa >>

\* new ethers.Wallet(config.testnetPrivateKey, provider) and
\* await provider.getBalance(wallet.address): either may raise
SetupWallet ==
    /\ fn.op = "runDynamicTests" /\ fn.pc = "wallet"
    /\ \E outcome \in {"ok", "invalid private key", "getBalance failed"} :
        fn' = IF outcome = "ok"
              THEN [fn EXCEPT !.pc = "compile"]
              ELSE [fn EXCEPT !.pc = "returned", !.ret = Some(DynamicFailure(outcome))]
    /\ UNCHANGED << pipeline, sa >>

\* const compiled = await compileContracts(repoPath); if (!compiled) throw
CompileContracts ==
    /\ fn.op = "runDynamicTests" /\ fn.pc = "compile"
    /\ \E compiled \in BOOLEAN :
        fn' = IF compiled
              THEN [fn EXCEPT !.compiled = Some(TRUE), !.pc = "deploy"]
              ELSE [fn EXCEPT !.compiled = Some(FALSE), !.pc = "returned",
                              !.ret = Some(DynamicFailure("Contract compilation failed"))]
    /\ UNCHANGED << pipeline, sa >>

\* the artifacts deployContracts goes through: none when the directory is
\* missing, else the first three
ToDeploy ==
    IF fn.artifacts = None THEN 0
    ELSE IF Get(fn.artifacts) < MaxDeployed THEN Get(fn.artifacts) ELSE MaxDeployed

\* what can happen to one artifact in the loop of deployContracts: it is
\* deployed and pushed; it has no bytecode; reading or deploying it raises
\* (caught inside the loop); the contract has no deployment transaction
ArtifactOutcomes == {"deployed", "no bytecode", "raised", "no deployment transaction"}

\* one pass of `for (const contractFile of toDeploy)`
DeployContract ==
    /\ fn.op = "runDynamicTests" /\ fn.pc = "deploy"
    /\ fn.tried < ToDeploy
    /\ \E outcome \in ArtifactOutcomes :
        fn' = [fn EXCEPT !.tried = @ + 1,
                         !.deployments = IF outcome = "deployed"
                                         THEN Append(@, [contractName |-> fn.tried + 1])
                                         ELSE @]
    /\ UNCHANGED << pipeline, sa >>

\* deployContracts returns its deployments
DeploymentsReturned ==
    /\ fn.op = "runDynamicTests" /\ fn.pc = "deploy"
    /\ fn.tried = ToDeploy
    /\ fn' = [fn EXCEPT !.pc = "transactions"]
    /\ UNCHANGED << pipeline, sa >>

\* a pass that records a transaction that raises with a status of its own
SendTestTransactionRaisedAsError ==
    /\ fn.op = "runDynamicTests" /\ fn.pc = "transactions"
    /\ Len(fn.transactions) < Len(fn.deployments)
    /\ \E outcome \in {"success", "reverted", "raised"} :
        fn' = [fn EXCEPT !.transactions =
                 Append(@, [to |-> fn.deployments[Len(fn.transactions) + 1].contractName,
                            status |-> outcome,
                            error |-> outcome = "raised"])]
    /\ UNCHANGED << pipeline, sa >>

\* one pass of `for (const deployment of deployments)` in runTestTransactions:
\* the transaction succeeds, is reverted, or raises and is recorded as
\* reverted with the error
SendTestTransaction ==
    /\ fn.op = "runDynamicTests" /\ fn.pc = "transactions"
    /\ Len(fn.transactions) < Len(fn.deployments)
    /\ \E outcome \in {"success", "reverted", "raised"} :
        fn' = [fn EXCEPT !.transactions =
                 Append(@, [to |-> fn.deployments[Len(fn.transactions) + 1].contractName,
                            status |-> IF outcome = "success" THEN "success" ELSE "reverted",
                            error |-> outcome = "raised"])]
    /\ UNCHANGED << pipeline, sa >>

CountStatus(transactions, status) ==
    Cardinality({i \in 1..Len(transactions) : transactions[i].status = status})

\* the summary is calculated and the success result returned
ReturnDynamicResult ==
    /\ fn.op = "runDynamicTests"
    /\ fn.pc = "transactions"
    /\ Len(fn.transactions) = Len(fn.deployments)
    /\ fn' = [fn EXCEPT
                !.pc = "returned",
                !.ret = Some([success |-> TRUE,
                              deployments |-> fn.deployments,
                              transactions |-> fn.transactions,
                              summary |->
                                [totalDeployed |-> Len(fn.deployments),
                                 totalTransactions |-> Len(fn.transactions),
                                 successfulTx |-> CountStatus(fn.transactions, "success"),
                                 failedTx |-> CountStatus(fn.transactions, "reverted")],
                              error |-> None])]
    /\ UNCHANGED << pipeline, sa >>

NextDynamic ==
    \/ SelectBestRPC
    \/ SetupWallet
    \/ CompileContracts
    \/ DeployContract
    \/ DeploymentsReturned
    \/ SendTestTransaction
    \/ ReturnDynamicResult

SpecDynamic == InitDynamic /\ [][NextDynamic]_vars

(* ---------------------------- specification ---------------------------- *)

\* the steps the event loop takes for request r once it is accepted: the
\* setImmediate callback and the continuations of its awaits
Continuation(r) ==
    \/ BackgroundStart(r)
    \/ NotifyAuditStart(r)
    \/ CloneRepository(r)
    \/ ValidateSolidityRepo(r)
    \/ NotifyCloneComplete(r)
    \/ RunStaticAnalysis(r)
    \/ NotifyStaticAnalysisComplete(r)
    \/ RunDynamicTests(r)
    \/ NotifyDynamicTestsComplete(r)
    \/ GenerateFixes(r)
    \/ CreatePR(r)
    \/ NotifyPRCreated(r)
    \/ WriteReport(r)
    \/ NotifyAuditComplete(r)
    \/ NotifyAuditError(r)
    \/ AuditSettled(r)

Next ==
    \E r \in Runs :
        \/ PostAuditStart(r)
        \/ ProgressTick(r)
        \/ Continuation(r)

Spec == Init /\ [][Next]_vars

\* the event loop runs every callback that is ready: a scheduled task and the
\* continuation of a settled await are eventually executed
SpecLive == Init /\ [][Next]_vars /\ \A r \in Runs : WF_vars(Continuation(r))

SpecConcurrent == InitConcurrent /\ [][Next]_vars

\* one audit on a server with every feature and credential configured, with
\* and without the Telegram bot
InitProvisioned ==
    /\ clients = 1
    /\ config \in {c \in Configs : \A k \in DOMAIN c : k # "telegram" => c[k]}
    /\ InitState
    /\ sa = NoAnalysis
    /\ fn = NoCall

\* the same event loop as SpecLive
SpecLiveProvisioned ==
    InitProvisioned /\ [][Next]_vars /\ \A r \in Runs : WF_vars(Continuation(r))

(* ------------------------------- claims -------------------------------- *)

Stages(rn) == {rn.calls[i].stage : i \in 1..Len(rn.calls)}

HardStages == {"cloneRepository", "validateSolidityRepo", "runStaticAnalysis"}

\* the position in the call log of a hard stage that returned a failure
HardFailures(rn) ==
    {i \in 1..Len(rn.calls) :
        rn.calls[i].stage \in HardStages /\ rn.calls[i].outcome = "failed"}

Terminal(r) == rec[r].status \in {"completed", "failed"}

\* C1: when a hard stage (clone, validation, static analysis) fails, the
\* registry record of that run ends 'failed' with the stage's message as its
\* error, never 'completed'.
C1_HardFailureEndsFailed ==
    \A r \in Runs :
        (Terminal(r) /\ HardFailures(run[r]) # {})
            => rec[r].status = "failed" /\ rec[r].error = run[r].error

\* C2: once a hard stage has failed no later stage is invoked: the failed
\* hard stage is the last entry of the run's call log, in every state.
C2_NoStageAfterHardFailure ==
    \A r \in Runs : \A i \in HardFailures(run[r]) : i = Len(run[r].calls)

C2_Witness ==
    \E r \in Runs :
        /\ run[r].pc = "done"
        /\ run[r].calls = << [stage |-> "cloneRepository", outcome |-> "failed"] >>

\* the positions of the call log where runDynamicTests returned a failure
DynamicFailures(rn) ==
    {i \in 1..Len(rn.calls) :
        rn.calls[i] = [stage |-> "runDynamicTests", outcome |-> "failed"]}

\* no stage of the run raised an error or returned a failure that was thrown
OnlySoftFailures(rn) ==
    /\ HardFailures(rn) = {}
    /\ \A i \in 1..Len(rn.calls) : rn.calls[i].outcome # "thrown"

\* C3: a failed result of runDynamicTests does not abort the run: fix
\* generation is the next stage, and when nothing else fails runAudit
\* returns success with the static findings and summary and the failed
\* dynamic result, and the registry record becomes 'completed'.
C3_DynamicFailureIsSoft ==
    \A r \in Runs : \A i \in DynamicFailures(run[r]) :
        /\ run[r].dyn = Some([success |-> FALSE])
        /\ IF i = Len(run[r].calls)
           THEN run[r].pc = "fixes"
           ELSE run[r].calls[i + 1].stage = "generateFixes"
        /\ (run[r].pc = "done" /\ OnlySoftFailures(run[r])) =>
              /\ rec[r].status = "completed"
              /\ Get(rec[r].result).success
              /\ Get(rec[r].result).findings = Get(run[r].findings)
              /\ Get(rec[r].result).summary = Get(run[r].summary)
              /\ Get(rec[r].result).summary.total = Len(Get(run[r].findings))
              /\ Get(rec[r].result).dynamicTestResult = Some([success |-> FALSE])

C3_Witness ==
    \E r \in Runs :
        /\ run[r].pc = "done"
        /\ DynamicFailures(run[r]) # {}
        /\ OnlySoftFailures(run[r])
        /\ Get(rec[r].result).success
        /\ Get(rec[r].result).findings # << >>

\* C4: a registry record is created 'queued', becomes 'running' before it
\* becomes 'completed' or 'failed', and once terminal no step of any task,
\* timer or request changes its status, result or error.
C4_StatusTransitions ==
    [][\A r \in Runs :
        /\ rec[r].status = "none" => rec'[r].status \in {"none", "queued"}
        /\ rec[r].status = "queued" => rec'[r].status \in {"queued", "running"}
        /\ rec[r].status = "running" =>
              rec'[r].status \in {"running", "completed", "failed"}
        /\ Terminal(r) =>
              /\ rec'[r].status = rec[r].status
              /\ rec'[r].result = rec[r].result
              /\ rec'[r].error = rec[r].error]_vars

\* one record is terminal while another audit, started later, is running
\* and its progress timer has fired
C4_Witness ==
    \E r, q \in Runs :
        /\ r # q
        /\ Terminal(r)
        /\ rec[q].status = "running"
        /\ timer[q].currentStepIndex > 1

\* C5: runDynamicTests is invoked only if the feature flag holds and the
\* testnet private key and an RPC URL are configured.
C5_DynamicTestsNeedCredentials ==
    \A r \in Runs :
        "runDynamicTests" \in Stages(run[r]) =>
            /\ config.enableDynamicTesting
            /\ config.testnetPrivateKey
            /\ config.rpcUrls

\* C6: createPR is invoked only if the feature flag holds and the GitHub
\* token is configured.
C6_PullRequestNeedsToken ==
    \A r \in Runs :
        "createPR" \in Stages(run[r]) => config.enableAutoPR /\ config.githubToken

LastCall(rn) == rn.calls[Len(rn.calls)]

\* the message runAudit's catch block receives when this call ends the run
StageMessage(call) ==
    CASE call.stage = "cloneRepository" -> "Clone failed: git error"
      [] call.stage = "validateSolidityRepo" -> "No Solidity contracts found: no .sol files"
      [] call.stage = "runStaticAnalysis" -> "Static analysis failed: analyzer error"
      [] call.stage = "generateFixes" -> "generateFixes error"
      [] call.stage = "createPR" -> "createPR error"
      [] call.stage = "writeReport" -> "write error"

\* C7: the outcome of a run does not depend on the delivery of its
\* notifications: the run always reaches its end with a result, the result
\* is a success exactly when the stages got as far as writing the report,
\* carrying the findings and summary of the static analysis, and otherwise
\* carries the message of the stage that failed, whether or not any
\* notification was delivered.
C7_NotificationFailureIsHarmless ==
    \A r \in Runs :
        run[r].pc = "done" =>
            /\ rec[r].status = "completed"
            /\ rec[r].error = None
            /\ IsSome(rec[r].result)
            /\ LET res == Get(rec[r].result)
                   last == LastCall(run[r])
               IN  /\ res.success = (last = [stage |-> "writeReport", outcome |-> "ok"])
                   /\ res.success =>
                         /\ res.findings = Get(run[r].findings)
                         /\ res.summary = Get(run[r].summary)
                         /\ res.error = None
                   /\ ~res.success =>
                         /\ res.error = Some(StageMessage(last))
                         /\ res.findings = << >>
                         /\ res.summary = ZeroSummary

\* a run succeeded although the bot was set up and a send was rejected
C7_Witness ==
    \E r \in Runs :
        /\ run[r].pc = "done"
        /\ config.telegram
        /\ run[r].lost
        /\ Get(rec[r].result).success
        /\ Len(run[r].notes) >= 4

Accepted == {r \in Runs : rec[r].status # "none"}

\* C8: any two accepted requests have distinct audit ids, and every accepted
\* audit is the registry's entry under its id.
C8_DistinctAuditIds ==
    \A r \in Accepted :
        /\ rec[r].id \in DOMAIN audits
        /\ audits[rec[r].id] = r
        /\ \A q \in Accepted : q # r => rec[q].id # rec[r].id

\* C9: the audit id of runAudit (in AuditResult.auditId, the notifications and
\* the report's path) is the id returned by POST /api/audit/start.
C9_ReportIdIsRegistryId ==
    \A r \in Runs :
        /\ IsSome(run[r].auditId) => Get(run[r].auditId) = rec[r].id
        /\ IsSome(rec[r].result) => Get(rec[r].result).auditId = rec[r].id

C11_QueuedBeforeAnyStage ==
    [][\A r \in Runs :
        /\ (responses[r] = None /\ responses'[r] # None) =>
              /\ responses'[r] = Some(QueuedResponse(rec'[r].id))
              /\ rec'[r].status = "queued"
              /\ audits'[rec'[r].id] = r
              /\ run'[r].calls = << >>
              /\ run'[r].notes = << >>
        /\ (rec[r].status # "running" /\ rec'[r].status = "running") =>
              /\ IsSome(responses[r])
              /\ rec[r].status = "queued"
              /\ run[r].calls = << >>
              /\ run[r].notes = << >>]_vars

\* the response has been produced and the background task has not run yet
C11_Witness ==
    \E r \in Runs :
        /\ IsSome(responses[r])
        /\ rec[r].status = "queued"
        /\ run[r].pc = "scheduled"
        /\ ~timer[r].active

\* the stages of runAudit in the order of its source text
StageOrder ==
    << "cloneRepository", "validateSolidityRepo", "runStaticAnalysis", "runDynamicTests",
       "generateFixes", "createPR", "writeReport" >>

OptionalStages == {"runDynamicTests", "createPR"}

Rank(stage) == CHOOSE k \in 1..Len(StageOrder) : StageOrder[k] = stage

\* C12: the stages a run has executed are in the fixed order clone,
\* validation, static analysis, [dynamic tests], fix generation, [PR
\* creation], report write: a later call of the log is a later stage of this
\* order, and every stage of the order before an executed one has itself
\* been executed (and has finished) unless it is optional.
C12_StagesInFixedOrder ==
    \A r \in Runs :
        LET c == run[r].calls IN
        /\ \A i, j \in 1..Len(c) : i < j => Rank(c[i].stage) < Rank(c[j].stage)
        /\ \A i \in 1..Len(c) : \A k \in 1..(Rank(c[i].stage) - 1) :
              \/ StageOrder[k] \in OptionalStages
              \/ \E h \in 1..(i - 1) : c[h].stage = StageOrder[k]

\* a run that executed all seven stages
C12_Witness ==
    \E r \in Runs :
        /\ run[r].pc = "done"
        /\ [i \in 1..Len(run[r].calls) |-> run[r].calls[i].stage] = StageOrder

\* the milestone notifications in the order of the milestones
Milestones ==
    << "auditStart", "cloneComplete", "staticAnalysisComplete", "dynamicTestsComplete",
       "prCreated", "auditComplete" >>

RECURSIVE IsSubsequence(_, _)
IsSubsequence(s, t) ==
    IF s = << >> THEN TRUE
    ELSE IF t = << >> THEN FALSE
    ELSE IF Head(s) = Head(t) THEN IsSubsequence(Tail(s), Tail(t))
    ELSE IsSubsequence(s, Tail(t))

IsPrefix(s, t) == Len(s) <= Len(t) /\ SubSeq(t, 1, Len(s)) = s

EndsWithAuditError(n) == n # << >> /\ n[Len(n)] = "auditError"

Front(n) == SubSeq(n, 1, Len(n) - 1)

\* the stages a notification reports on
MilestoneStages(name) ==
    CASE name = "cloneComplete" -> {"cloneRepository", "validateSolidityRepo"}
      [] name = "staticAnalysisComplete" -> {"runStaticAnalysis"}
      [] name = "dynamicTestsComplete" -> {"runDynamicTests"}
      [] name = "prCreated" -> {"createPR"}
      [] name = "auditComplete" -> {"writeReport"}
      [] OTHER -> {}

\* every notification emitted so far reports on stages that have finished
EmittedAfterItsStage(rn) ==
    \A i \in 1..Len(rn.notes) : MilestoneStages(rn.notes[i]) \subseteq Stages(rn)

\* C13 as stated: the notifications of a run are a subsequence of the
\* milestone order, or a prefix of the milestone order followed by the
\* failure notification, and each is emitted after its stage has finished.
C13_NotificationsPrefixThenFailed ==
    \A r \in Runs :
        LET n == run[r].notes IN
        /\ \/ IsSubsequence(n, Milestones)
           \/ EndsWithAuditError(n) /\ IsPrefix(Front(n), Milestones)
        /\ EmittedAfterItsStage(run[r])

\* C13 amended: the notifications of a run are a subsequence of the milestone
\* order, or a subsequence of the milestones before 'audit complete'
\* followed by the failure notification (a milestone whose stage was skipped
\* or failed softly is missing from it), and each is emitted after its stage
\* has finished.
C13_NotificationsInMilestoneOrder ==
    \A r \in Runs :
        LET n == run[r].notes IN
        /\ \/ IsSubsequence(n, Milestones)
           \/ /\ EndsWithAuditError(n)
              /\ IsSubsequence(Front(n), SubSeq(Milestones, 1, Len(Milestones) - 1))
        /\ EmittedAfterItsStage(run[r])

\* a run without the dynamic-test notification whose report write failed
\* after the pull request had been announced
C13_Witness ==
    \E r \in Runs :
        /\ run[r].pc = "done"
        /\ run[r].notes = << "auditStart", "cloneComplete", "staticAnalysisComplete",
                             "prCreated", "auditError" >>

\* C14: a run that waits for the delivery of a notification that never
\* completes still goes on to its next stage and reaches a terminal status.
C14_PendingDeliveryDoesNotBlock ==
    \A r \in Runs : (run[r].pc = "awaitingDelivery") ~> Terminal(r)

\* the stage collaborators runAudit calls
Collaborators ==
    {"cloneRepository", "validateSolidityRepo", "runStaticAnalysis", "runDynamicTests",
     "generateFixes", "createPR"}

\* how many times the run has invoked this stage
Invocations(rn, stage) == Cardinality({i \in 1..Len(rn.calls) : rn.calls[i].stage = stage})

\* C15: no step leaves a run with a collaborator invoked twice, whatever the
\* outcome of its first invocation, and no step changes anything of a run
\* whose record is terminal: it calls no stage and emits no notification.
C15_NoRetries ==
    [][\A r \in Runs :
        /\ \A stage \in Collaborators : Invocations(run'[r], stage) <= 1
        /\ Terminal(r) => run'[r] = run[r]]_vars

\* a finished run in which two collaborators failed, each invoked once
C15_Witness ==
    \E r \in Runs :
        /\ Terminal(r)
        /\ Invocations(run[r], "runDynamicTests") = 1
        /\ Invocations(run[r], "createPR") = 1
        /\ \E i, j \in 1..Len(run[r].calls) :
              /\ run[r].calls[i] = [stage |-> "runDynamicTests", outcome |-> "failed"]
              /\ run[r].calls[j] = [stage |-> "createPR", outcome |-> "thrown"]

\* the positions of the call log where createPR returned a result without a
\* prUrl or raised an error
PullRequestFailures(rn) ==
    {i \in 1..Len(rn.calls) :
        rn.calls[i].stage = "createPR" /\ rn.calls[i].outcome \in {"failed", "thrown"}}

\* C16: a failure of createPR, returned or raised, does not abort the run:
\* the report write is the next stage, no prUrl is kept and no PR-created
\* notification is emitted, and when the report is written runAudit returns
\* success with the findings, fixes and summary and without a prUrl.
C16_PullRequestFailureIsSoft ==
    \A r \in Runs : \A i \in PullRequestFailures(run[r]) :
        /\ run[r].prUrl = None
        /\ \A k \in 1..Len(run[r].notes) : run[r].notes[k] # "prCreated"
        /\ IF i = Len(run[r].calls)
           THEN run[r].pc = "report"
           ELSE run[r].calls[i + 1].stage = "writeReport"
        /\ (run[r].pc = "done" /\ LastCall(run[r]).outcome = "ok") =>
              LET res == Get(rec[r].result) IN
              /\ res.success
              /\ res.findings = Get(run[r].findings)
              /\ res.fixes = Get(run[r].fixes)
              /\ res.summary = Get(run[r].summary)
              /\ res.prUrl = None

\* the positions of the call log where generateFixes was invoked
FixGenerations(rn) == {i \in 1..Len(rn.calls) : rn.calls[i].stage = "generateFixes"}

\* C17: whatever generateFixes does (no fixes, some fixes, an error raised)
\* the run goes on to the stage after it, and when no other stage fails
\* runAudit returns success with the findings and summary of the static
\* analysis.
C17_FixGenerationNeverHardFails ==
    \A r \in Runs : \A i \in FixGenerations(run[r]) :
        /\ IF i = Len(run[r].calls)
           THEN run[r].pc \in {"pr", "report"}
           ELSE run[r].calls[i + 1].stage \in {"createPR", "writeReport"}
        /\ (/\ run[r].pc = "done"
            /\ \A j \in 1..Len(run[r].calls) :
                  j # i => run[r].calls[j].outcome # "thrown") =>
              LET res == Get(rec[r].result) IN
              /\ res.success
              /\ res.findings = Get(run[r].findings)
              /\ res.summary = Get(run[r].summary)

\* the analyzer failed: it could not be spawned or listed, its output could
\* not be parsed, or an entry of its output raised while it was processed
AnalyzerFailed(raw) ==
    raw.fault # "none" \/ \E i \in 1..Len(raw.items) : raw.items[i].broken

\* the findings of a list that carry this tool
FindingsOf(findings, tool) == SelectSeq(findings, LAMBDA f : f.tool = tool)

\* the findings report the entries, one for one and in their order
ReportsAll(findings, items) ==
    /\ Len(findings) = Len(items)
    /\ \A i \in 1..Len(items) : SameIssue(findings[i], items[i])

\* C18: when runStaticAnalysis has returned, it returned success; an
\* analyzer that failed has no finding in the result, and every entry of
\* an analyzer that did not fail has its finding in the result.
C18_FailingAnalyzerIsIsolated ==
    sa.pc = "returned" =>
        LET res == Get(sa.result) IN
        /\ res.success
        /\ \A t \in Tools :
              IF AnalyzerFailed(sa.raw[t])
              THEN FindingsOf(res.findings, t) = << >>
              ELSE ReportsAll(FindingsOf(res.findings, t), sa.raw[t].items)

\* C19: all three analyzers are started before any of them is waited for,
\* the result exists only when all three have settled, and whatever the
\* order in which they settled the findings are Slither's, then Solhint's,
\* then PatternCheck's, as the analyzers' outputs alone determine them,
\* with the summary computed from that list.
C19_MergeIgnoresCompletionOrder ==
    /\ sa.pc # "idle" => sa.started = Analyzers
    /\ \A t \in Tools : IsSome(sa.done[t]) => \E i \in 1..Len(sa.started) : sa.started[i] = t
    /\ IsSome(sa.result) =>
          LET res == Get(sa.result) IN
          /\ Len(sa.order) = Len(Analyzers)
          /\ \A t \in Tools : IsSome(sa.done[t])
          /\ res.findings = runAnalyzer("Slither", sa.raw["Slither"])
                              \o runAnalyzer("Solhint", sa.raw["Solhint"])
                              \o runAnalyzer("PatternCheck", sa.raw["PatternCheck"])
          /\ res.summary = Summarize(res.findings)

\* the analyzers settled in the reverse of their order, each with findings
C19_Witness ==
    /\ sa.pc = "returned"
    /\ sa.order = << "PatternCheck", "Solhint", "Slither" >>
    /\ \A t \in Tools : Get(sa.done[t]) # << >>
    /\ Get(sa.result).findings[1].tool = "Slither"

\* C20: the merged list is as long as the three analyzers' lists together,
\* the findings carrying a tool are exactly that analyzer's findings, in
\* its order, and two findings of different analyzers with the same file,
\* line and title are both in the list.
C20_MergeKeepsEveryFinding ==
    sa.pc = "returned" =>
        LET merged == Get(sa.result).findings IN
        /\ Len(merged) = Len(Get(sa.done["Slither"])) + Len(Get(sa.done["Solhint"]))
                           + Len(Get(sa.done["PatternCheck"]))
        /\ Get(sa.result).summary.total = Len(merged)
        /\ \A t \in Tools : FindingsOf(merged, t) = Get(sa.done[t])
        /\ \A a, b \in Tools :
              a # b =>
                \A i \in 1..Len(Get(sa.done[a])), j \in 1..Len(Get(sa.done[b])) :
                    SameIssue(Get(sa.done[a])[i], Get(sa.done[b])[j]) =>
                        \E p, q \in 1..Len(merged) :
                            /\ p # q
                            /\ merged[p] = Get(sa.done[a])[i]
                            /\ merged[q] = Get(sa.done[b])[j]

\* Slither and Solhint reported the same file, line and title, and the
\* result holds both findings
C20_Witness ==
    /\ sa.pc = "returned"
    /\ \E p, q \in 1..Len(Get(sa.result).findings) :
          LET f == Get(sa.result).findings[p]
              g == Get(sa.result).findings[q]
          IN  f.tool = "Slither" /\ g.tool = "Solhint" /\ SameIssue(f, g)

\* the total of a summary is the number of findings and its five counts add
\* up to the total
SummaryMatches(summary, findings) ==
    /\ summary.total = Len(findings)
    /\ summary.critical + summary.high + summary.medium + summary.low + summary.info
          = summary.total

\* C21: in every result of runStaticAnalysis and every AuditResult of
\* runAudit, summary.total is the number of findings and the five severity
\* counts add up to summary.total.
C21_SummaryMatchesFindings ==
    /\ sa.pc = "returned" =>
          SummaryMatches(Get(sa.result).summary, Get(sa.result).findings)
    /\ \A r \in Runs :
          IsSome(run[r].promise) /\ Get(run[r].promise).state = "resolved" =>
              SummaryMatches(Get(run[r].promise).value.summary,
                             Get(run[r].promise).value.findings)

\* the analyzer has built the Finding of the entry
Normalized == fn.op = "normalize" /\ IsSome(fn.ret)

\* C22: every Finding an analyzer builds has a confidence of {high, medium,
\* low}, which has a confidence weight; a Slither detector whose confidence
\* is missing or, lower-cased, is none of these words gets 'medium'.
C22_ConfidenceInVocabulary ==
    Normalized =>
        LET native == fn.arg.item.confidence
            finding == Get(fn.ret)
        IN  /\ finding.confidence \in Confidences
            /\ confidenceScores(finding.confidence) # NaN
            /\ (/\ fn.arg.tool = "Slither"
                /\ \/ native = None
                   \/ toLowerCase(Get(native)) \notin Confidences)
                  => finding.confidence = "medium"

\* C23: the severity of a Finding built by Slither or Solhint is the entry
\* of SEVERITY_MAP for a native value that is a key of the table, and
\* 'info' for every other native value.
C23_UnmappedSeverityIsInfo ==
    (Normalized /\ fn.arg.tool \in {"Slither", "Solhint"}) =>
        LET level == fn.arg.item.level IN
        Get(fn.ret).severity =
            IF level \in DOMAIN SeverityTable THEN SeverityTable[level] ELSE "info"

\* the weights the priority score is documented with
SeverityWeight ==
    [s \in Severities |->
        CASE s = "info" -> 1 [] s = "low" -> 2 [] s = "medium" -> 4
          [] s = "high" -> 7 [] s = "critical" -> 10]

ConfidenceWeight ==
    [c \in Confidences |-> CASE c = "low" -> 1 [] c = "medium" -> 2 [] c = "high" -> 3]

\* the severities and the confidences from the least to the most serious
SeverityRank ==
    [s \in Severities |->
        CASE s = "info" -> 1 [] s = "low" -> 2 [] s = "medium" -> 3
          [] s = "high" -> 4 [] s = "critical" -> 5]

ConfidenceRank ==
    [c \in Confidences |-> CASE c = "low" -> 1 [] c = "medium" -> 2 [] c = "high" -> 3]

\* C24: the score returned for a finding is the product of the documented
\* weights of its severity and confidence; a finding of the same confidence
\* and a higher severity scores strictly more, and so does a finding of the
\* same severity and a higher confidence.
C24_PriorityScoreIsMonotonic ==
    (fn.op = "calculatePriorityScore" /\ IsSome(fn.ret)) =>
        LET f == fn.arg
            score == Get(fn.ret)
        IN  /\ score = SeverityWeight[f.severity] * ConfidenceWeight[f.confidence]
            /\ \A s \in Severities :
                  SeverityRank[s] > SeverityRank[f.severity] =>
                      calculatePriorityScore([f EXCEPT !.severity = s]) > score
            /\ \A c \in Confidences :
                  ConfidenceRank[c] > ConfidenceRank[f.confidence] =>
                      calculatePriorityScore([f EXCEPT !.confidence = c]) > score

\* the score of a finding in the middle of both scales has been returned
C24_Witness ==
    /\ fn.op = "calculatePriorityScore"
    /\ fn.arg = [severity |-> "medium", confidence |-> "medium"]
    /\ fn.ret = Some(8)

\* the place of the i-th finding of a list in the descending order of the
\* priority scores in which findings of equal score keep their order
PlaceByPriority(fs, i) ==
    1 + Cardinality({j \in 1..Len(fs) :
            \/ calculatePriorityScore(fs[j]) > calculatePriorityScore(fs[i])
            \/ calculatePriorityScore(fs[j]) = calculatePriorityScore(fs[i]) /\ j < i})

IdsAreDistinct ==
    Cardinality({FindingId(IdPrefix(t), n) : t \in Tools, n \in 1..MaxIdCounter})
        = Cardinality(Tools) * MaxIdCounter

\* C26: the ids of the findings of one result are pairwise distinct; the
\* i-th finding of an analyzer in the result has that analyzer's prefix
\* (SLTH, SLNT, PTRN) and the counter i, whatever the counter is.
C26_FindingIdsAreDistinct ==
    /\ IdsAreDistinct
    /\ sa.pc = "returned" =>
          LET merged == Get(sa.result).findings IN
          /\ \A p, q \in 1..Len(merged) : p # q => merged[p].id # merged[q].id
          /\ \A t \in Tools :
                LET own == FindingsOf(merged, t) IN
                \A i \in 1..Len(own) :
                    /\ own[i].id[1] = IdPrefix(t)
                    /\ own[i].id[2] = padStart(Digits(i), 3)

\* a result with two findings of each analyzer
C26_Witness ==
    /\ sa.pc = "returned"
    /\ \A t \in Tools : Len(FindingsOf(Get(sa.result).findings, t)) = 2

\* the positions of the call log where runStaticAnalysis returned a result
\* without findings
EmptyAnalyses(rn) ==
    {i \in 1..Len(rn.calls) :
        /\ rn.calls[i].stage = "runStaticAnalysis"
        /\ rn.calls[i].outcome = "ok"
        /\ rn.findings = Some(<< >>)}

\* C27: when no analyzer has a finding runStaticAnalysis returns success
\* with no findings and a summary of zeros; runAudit then selects no top
\* findings, goes on to the notification and the later stages without an
\* error, and when nothing else fails it returns success with no findings
\* and the record becomes 'completed'.
C27_NoFindingsIsNoError ==
    /\ LET result == StaticAnalysisResult(runAnalyzer("Slither", NoOutput),
                                          runAnalyzer("Solhint", NoOutput),
                                          runAnalyzer("PatternCheck", NoOutput))
       IN  /\ result.success
           /\ result.findings = << >>
           /\ result.summary = ZeroSummary
    /\ \A r \in Runs : \A i \in EmptyAnalyses(run[r]) :
          /\ run[r].summary = Some(ZeroSummary)
          /\ run[r].topFindings = << >>
          /\ IF i = Len(run[r].calls)
             THEN run[r].pc \in {"notifyStatic", "awaitingDelivery", "dynamic", "fixes"}
             ELSE run[r].calls[i + 1].stage \in {"runDynamicTests", "generateFixes"}
          /\ (run[r].pc = "done" /\ OnlySoftFailures(run[r])) =>
                /\ rec[r].status = "completed"
                /\ Get(rec[r].result).success
                /\ Get(rec[r].result).findings = << >>
                /\ Get(rec[r].result).summary = ZeroSummary

\* a run whose static analysis had no findings has completed successfully
C27_Witness ==
    \E r \in Runs :
        /\ run[r].pc = "done"
        /\ EmptyAnalyses(run[r]) # {}
        /\ rec[r].status = "completed"
        /\ Get(rec[r].result).success
        /\ Get(rec[r].result).findings = << >>

\* this step is one of request r's background task or of its progress timer
StepOfAudit(r) ==
    /\ rec[r].status # "none"
    /\ run'[r] # run[r] \/ timer'[r] # timer[r]

\* C28: a step of the background task or the progress timer of one audit
\* changes nothing of the record of an audit with a different id (its
\* status, progress, result, error and the rest stay as they are) and
\* leaves the registry's entries where they are.
C28_ConcurrentAuditsDoNotInterfere ==
    [][\A r, q \in Runs :
          (r # q /\ rec[r].id # rec[q].id /\ StepOfAudit(r)) =>
              /\ rec'[q] = rec[q]
              /\ audits' = audits]_vars

\* two audits with different ids are running, and the progress timer of one
\* has advanced its record while the record of the other is where it began
C28_Witness ==
    \E r, q \in Runs :
        /\ rec[r].status = "running" /\ rec[q].status = "running"
        /\ rec[r].id # rec[q].id
        /\ rec[r].progress = Some(3)
        /\ rec[q].progress = Some(1)

\* this step answers a GET /api/audits request
Listed == fn' # fn /\ fn'.op = "GET /api/audits"

\* C29: the answer of GET /api/audits holds the record of every id of the
\* registry exactly once and nothing else, each record at least as recent
\* (startedAt) as those after it, and the request leaves the registry and
\* its records as they were.
C29_ListingIsCompleteAndRecentFirst ==
    [][Listed =>
          LET list == Get(fn'.ret).audits IN
          /\ audits' = audits
          /\ rec' = rec
          /\ Len(list) = Cardinality(DOMAIN audits)
          /\ \A id \in DOMAIN audits :
                \E p \in 1..Len(list) :
                    /\ list[p] = rec[audits[id]]
                    /\ \A q \in 1..Len(list) : list[q].id = id => q = p
          /\ \A p, q \in 1..Len(list) :
                p < q => Get(list[p].startedAt) >= Get(list[q].startedAt)]_vars

\* a listing of two records in which the record registered later comes first
C29_Witness ==
    /\ fn.op = "GET /api/audits"
    /\ Len(fn.arg) = 2
    /\ Get(fn.ret).audits = << fn.arg[2], fn.arg[1] >>
    /\ Get(fn.arg[2].startedAt) > Get(fn.arg[1].startedAt)

\* C30: a registry record has an error only when its status is 'failed' and
\* a completedAt only when its status is 'completed' or 'failed'; a record
\* that is 'queued' or 'running' has neither.
C30_ErrorAndCompletedAtFollowStatus ==
    \A r \in Runs :
        rec[r].status # "none" =>
            /\ IsSome(rec[r].error) => rec[r].status = "failed"
            /\ rec[r].completedAt => rec[r].status \in {"completed", "failed"}
            /\ rec[r].status \in {"queued", "running"} =>
                  rec[r].error = None /\ ~rec[r].completedAt

\* a record completed with the result of a run that failed: it has a
\* completedAt and no error of its own
C30_Witness ==
    \E r \in Runs :
        /\ rec[r].status = "completed"
        /\ rec[r].completedAt
        /\ rec[r].error = None
        /\ ~Get(rec[r].result).success

\* the delivery of a notification of the run stays pending for ever
DeliveryNeverSettles(r) == <>[](run[r].pc = "awaitingDelivery")

\* C31: unless a call of a collaborator never returns (the only such call
\* of the model is a notification whose delivery stays pending), an audit
\* that is 'queued' eventually is not, and an audit that is 'queued' or
\* 'running' eventually is 'completed' or 'failed'.
C31_AcceptedAuditTerminates ==
    \A r \in Runs :
        \/ DeliveryNeverSettles(r)
        \/ /\ (rec[r].status = "queued") ~> (rec[r].status # "queued")
           /\ (rec[r].status \in {"queued", "running"}) ~> Terminal(r)

\* an audit whose notifications were all delivered is terminal after the
\* whole pipeline, pull request included
C31_Witness ==
    \E r \in Runs :
        /\ Terminal(r)
        /\ config.telegram /\ ~run[r].lost
        /\ run[r].prUrl # None

TerminalNotifications == {"auditComplete", "auditError"}

\* the positions of the terminal notifications among those a run emitted
TerminalNotes(rn) == {i \in 1..Len(rn.notes) : rn.notes[i] \in TerminalNotifications}

\* runAudit has returned or raised
Finished(rn) == IsSome(rn.promise)

\* C32: the first notification of a run is audit-started and it is emitted
\* before any stage is called; a run emits at most one terminal
\* notification (audit-complete or audit-failed, never both), nothing after
\* it, and exactly one by the time it has finished; audit-complete is
\* emitted only after the report was written, and a finished run that
\* emitted audit-failed returned success = false.
C32_OneTerminalNotificationLast ==
    \A r \in Runs :
        LET rn == run[r] IN
        /\ rn.notes # << >> => rn.notes[1] = "auditStart"
        /\ rn.calls # << >> => rn.notes # << >>
        /\ Cardinality(TerminalNotes(rn)) <= 1
        /\ \A i \in TerminalNotes(rn) : i = Len(rn.notes)
        /\ Finished(rn) => Cardinality(TerminalNotes(rn)) = 1
        /\ (\E i \in TerminalNotes(rn) : rn.notes[i] = "auditComplete") =>
              /\ rn.writes = 1
              /\ rn.calls[Len(rn.calls)] = [stage |-> "writeReport", outcome |-> "ok"]
        /\ (Finished(rn) /\ EndsWithAuditError(rn.notes)) =>
              /\ Get(rn.promise).state = "resolved"
              /\ ~Get(rn.promise).value.success

\* a finished run that emitted all six milestones, audit-complete last
C32_Witness ==
    \E r \in Runs :
        /\ Finished(run[r])
        /\ Len(run[r].notes) = 6
        /\ run[r].notes[1] = "auditStart"
        /\ run[r].notes[6] = "auditComplete"

\* C33: a record has a progress only while it is 'running' (none while
\* 'queued', none once 'completed' or 'failed', and no step gives a terminal
\* record one); the step number of a progress is within 1..TotalSteps and
\* no step lowers it.
C33_ProgressOnlyWhileRunning ==
    [][\A r \in Runs :
          /\ IsSome(rec[r].progress) => rec[r].status = "running"
          /\ IsSome(rec'[r].progress) =>
                /\ rec'[r].status = "running"
                /\ Get(rec'[r].progress) \in 1..TotalSteps
          /\ (IsSome(rec[r].progress) /\ IsSome(rec'[r].progress)) =>
                Get(rec'[r].progress) >= Get(rec[r].progress)
          /\ Terminal(r) => rec'[r].progress = None]_vars

\* a record that was running with a progress is completed: its timer is
\* cleared and its progress is gone
C33_Witness ==
    \E r \in Runs :
        /\ rec[r].status = "completed"
        /\ rec[r].progress = None
        /\ timer[r] = NoTimer
        /\ run[r].pc = "done"

\* C34: the findings runAudit works with after selecting the top findings
\* (handed to generateFixes and createPR, written to the report, returned in
\* a successful AuditResult) are the list runStaticAnalysis returned, with
\* the same elements in the same order.
C34_SelectionLeavesFindingsUnchanged ==
    \A r \in Runs :
        /\ IsSome(run[r].findings) => run[r].findings = run[r].returned
        /\ (Finished(run[r]) /\ Get(run[r].promise).state = "resolved"
              /\ Get(run[r].promise).value.success) =>
                 Get(run[r].promise).value.findings = Get(run[r].returned)

\* the (file, line, pattern) triples in which the line contains the pattern
MatchingLines(files) ==
    {t \in (1..Len(files)) \X (1..MaxLines) \X (1..Len(Patterns)) :
        /\ t[2] <= Len(files[t[1]])
        /\ Contains(files[t[1]][t[2]], Patterns[t[3]])}

\* C35: the findings runPatternChecks returns are exactly one for every
\* line of every file and every pattern the line contains, with the file,
\* the 1-based number of the line and the title of the pattern, whatever
\* lines and files were tested before.
C35_OneFindingPerMatchingLine ==
    (fn.op = "runPatternChecks" /\ IsSome(fn.ret)) =>
        LET findings == Get(fn.ret)
            reported(t) == {i \in 1..Len(findings) :
                               /\ findings[i].file = FileName(t[1])
                               /\ findings[i].line = t[2]
                               /\ findings[i].title = Patterns[t[3]].title}
        IN  /\ Len(findings) = Cardinality(MatchingLines(fn.arg))
            /\ \A t \in MatchingLines(fn.arg) : Cardinality(reported(t)) = 1

\* C36: every finding of a result of runStaticAnalysis has one of the
\* severities high, medium, low, info, none has 'critical', and the
\* summary counts no critical finding.
C36_NoCriticalFinding ==
    sa.pc = "returned" =>
        LET result == Get(sa.result) IN
        /\ \A i \in 1..Len(result.findings) :
              /\ result.findings[i].severity # "critical"
              /\ result.findings[i].severity \in {"high", "medium", "low", "info"}
        /\ result.summary.critical = 0

\* the two shapes of an AuditResult
SuccessShape(result) == result.success /\ result.error = None

FailureShape(result) ==
    /\ ~result.success
    /\ IsSome(result.error)
    /\ result.findings = << >>
    /\ result.fixes = << >>
    /\ result.summary = ZeroSummary
    /\ result.dynamicTestResult = None
    /\ result.prUrl = None

\* C37: runAudit never raises: when it has finished its promise is
\* resolved, with a result that is a success without error or a failure
\* with an error, no findings, no fixes, a summary of zeros and neither
\* dynamic result nor pull-request URL; a run in which an error was raised
\* returns the failure, whatever it had produced before.
C37_ResultHasOneOfTwoShapes ==
    \A r \in Runs :
        Finished(run[r]) =>
            /\ Get(run[r].promise).state = "resolved"
            /\ LET result == Get(run[r].promise).value IN
               /\ SuccessShape(result) \/ FailureShape(result)
               /\ IsSome(run[r].error) => FailureShape(result) /\ result.error = run[r].error

\* a run whose static analysis produced findings and whose report write
\* failed has returned the failure
C37_Witness ==
    \E r \in Runs :
        /\ Finished(run[r])
        /\ IsSome(run[r].returned) /\ Get(run[r].returned) # << >>
        /\ run[r].calls[Len(run[r].calls)] = [stage |-> "writeReport", outcome |-> "thrown"]
        /\ FailureShape(Get(run[r].promise).value)

WithoutRepoUrl(request) == request.repoUrl = None

\* C39: whenever POST /api/audit/start handles a request without a repoUrl,
\* the client is answered with status 400, and the registry, the records,
\* the background tasks with their collaborator calls, the progress timers
\* and the reports are as they were before the request.
C39_RequestWithoutRepoUrlIsRejected ==
    [][(fn' # fn /\ fn'.op = "postAuditStart" /\ WithoutRepoUrl(fn'.body)) =>
          /\ IsSome(responses'[fn'.client])
          /\ Get(responses'[fn'.client]).status = 400
          /\ UNCHANGED << audits, rec, timer, run, reports >>]_vars
\* the invocations and the sleeps of retry: at most maxRetries invocations,
\* one after the other, none after a successful one, and after the i-th
\* failed one (0-based), unless it is the last, a sleep of delayMs * 2^i
RetryAttemptsAndWaits ==
    /\ Len(fn.attempts) <= fn.maxRetries
    /\ \A k \in 1..Len(fn.attempts) : fn.attempts[k].ok => k = Len(fn.attempts)
    /\ \A k \in 1..Len(fn.waits) :
          /\ fn.waits[k] = [after |-> k - 1, ms |-> fn.delayMs * 2^(k - 1)]
          /\ k < fn.maxRetries
          /\ k <= Len(fn.attempts) /\ ~fn.attempts[k].ok
    /\ fn.pc = "sleep" => Len(fn.waits) = Len(fn.attempts) - 1
    /\ fn.pc = "loop" => Len(fn.waits) = fn.i \/ fn.i = fn.maxRetries
    /\ fn.pc = "done" =>
          Len(fn.waits) = IF fn.attempts[Len(fn.attempts)].ok
                          THEN Len(fn.attempts) - 1
                          ELSE fn.maxRetries - 1

\* what retry returns or raises, given what it raises when every attempt
\* failed
RetryResult(raisedFor(_)) ==
    fn.pc = "done" =>
        LET last == fn.attempts[Len(fn.attempts)] IN
        IF last.ok
        THEN Get(fn.ret) = [raised |-> FALSE, value |-> last.value]
        ELSE /\ Len(fn.attempts) = fn.maxRetries
             /\ Get(fn.ret) = [raised |-> TRUE, value |-> Some(raisedFor(last.value))]

SameError(error) == error

\* C40 as stated: with maxRetries >= 1, retry invokes fn at most maxRetries
\* times, stops at the first success and returns its value, sleeps
\* delayMs * 2^i after the i-th failed attempt but not after the last, and
\* when every attempt failed raises the very error the last attempt
\* rejected with.
C40_RetryRaisesErrorOfLastAttempt ==
    (fn.op = "retry" /\ fn.maxRetries >= 1) =>
        RetryAttemptsAndWaits /\ RetryResult(SameError)

\* C40, amended: as stated, except that when every attempt failed retry
\* raises the rejection of the last attempt if it is an Error, and otherwise
\* a new Error whose message is the string form of that rejection.
C40_RetryRaisesLastErrorAsError ==
    (fn.op = "retry" /\ fn.maxRetries >= 1) =>
        RetryAttemptsAndWaits /\ RetryResult(AsError)

\* three attempts failed, the last with a value that is not an Error, two
\* sleeps of 1000 and 2000 ms were taken, and the call has raised
C40_Witness ==
    /\ fn.op = "retry" /\ fn.pc = "done"
    /\ fn.maxRetries = 3 /\ fn.delayMs = 1000
    /\ Len(fn.attempts) = 3
    /\ ~fn.attempts[3].ok
    /\ fn.attempts[3].value.kind = "object"
    /\ fn.waits = << [after |-> 0, ms |-> 1000], [after |-> 1, ms |-> 2000] >>
    /\ Get(fn.ret).raised
====
